---- MODULE Spec2Model ----
(***************************************************************************)
(* Model of the Grok-Outlook companion: the main-process rate limiter,     *)
(* the AI invoker with its credential lookup, the IPC handlers of main.js  *)
(* and the One Shot / Smart Shot runs of the renderer.                     *)
(***************************************************************************)
EXTENDS Integers, Sequences, FiniteSets, TLC

\* ------------------------------------------------------------------------
\* Program constants
\* ------------------------------------------------------------------------
\* rateLimiter.maxCalls (main.js:154)
maxCalls == 20
\* rateLimiter.windowMs (main.js:155)
windowMs == 60000

\* ------------------------------------------------------------------------
\* Bounds of the model
\* ------------------------------------------------------------------------
\* the clock advances in steps of TickUnit or of a whole window
TickUnit == 30000
\* the clock stops after MaxTicks units
MaxTicks == 2
\* calls each key still accepts when the entry points are first exercised
Headroom == 2
\* a message carries at most MaxAttachments file attachments
MaxAttachments == 3
\* a template is used at most MaxUsage times
MaxUsage == 2
\* the most fragments a text under study is made of
MaxPieces == 4
\* the most template ids a composition under study is given
MaxSelected == 2

\* rate-limit keys used by the handlers of main.js
RLKeys == {"ai-process", "outlook-reply", "file-analysis"}
\* keys exercised by the rate-limiter specification
RateKeys == {"ai-process", "outlook-reply"}

\* providers accepted by save-ai-settings; "ollama" is the local one
Providers == {"grok", "openai", "ollama"}
\* API keys the user may store
ApiKeys == {"k1", "k2"}
\* keytar.getPassword returns null when nothing is stored
NoKey == "null"

\* ids of the templates in the prompt store
PromptIds == {"p1"}
\* EntryIDs the mail client reports; "" when the property cannot be read
EntryIds == {"e1", ""}
\* the JavaScript null of a state slot
Null == "null"

VARIABLES
  now,        \* Date.now()
  calls,      \* rateLimiter.calls: key -> sequence of accepted timestamps
  hist,       \* history: key -> accepted timestamps still inside the window
  lastCheck,  \* history: the outcome of the latest rateLimiter.check
  provider,   \* aiSettings.provider
  keyStore,   \* keytar: provider -> stored API key, NoKey when none
  inv,        \* history: what the latest handler invocation did and returned
  usageCount, \* prompt store: template id -> usageCount
  selectedPromptIds, \* renderer: the templates ticked by the user
  rpc,        \* renderer: where the running One Shot / Smart Shot stands
  oneShotStatus,     \* renderer state oneShotStatus
  smartShotStatus,   \* renderer state smartShotStatus
  loading,    \* renderer state loading: [active, ai]
  activeEmail,       \* renderer state activeEmail (its entryId)
  aiResult,   \* renderer state aiResult
  message,    \* renderer state message: the type of the latest showMessage
  runEmail,   \* the message snapshot held by the running handler
  runPrompts, \* the selection captured by the running handler
  runLog,     \* history: the calls the current run has made
  quickNotes, \* renderer state quickNotes
  keepQuickNotes,    \* renderer state keepQuickNotes
  runNotes,   \* the quickNotes captured by the running handler
  runKeep,    \* the keepQuickNotes captured by the running handler
  resultEmail,       \* renderer state aiResult.email: the message it is from
  oneShotMode,       \* renderer state oneShotMode
  smartShotMode,     \* renderer state smartShotMode
  selectedEmail,     \* renderer state selectedEmail (its entryId)
  fpc,        \* fetchAndProcess: its position
  fEmail,     \* fetchAndProcess: result.data, the message it fetched
  spc,        \* smart-shot handler: its position
  attachments,       \* smart-shot handler: the files returned to it
  idx,        \* smart-shot handler: loop index i (1-based)
  summaries,  \* smart-shot handler: results.attachmentSummaries
  failed,     \* history: files whose extraction or summarization failed
  disk,       \* temporary attachment files of the run that exist on disk
  cleaned,    \* history: files whose deletion the handler attempted
  ssResult,   \* smart-shot handler: the value it returns
  input,      \* the arguments of the function or handler under study
  output      \* the set holding what it returned, empty before the call

rlVars == <<now, calls>>
rlHist == <<hist, lastCheck>>
limiterVars == <<now, calls, hist, lastCheck>>
settingsVars == <<provider, keyStore>>
storeVars == <<usageCount>>
rendererVars == <<selectedPromptIds, rpc, oneShotStatus, smartShotStatus,
                  loading, activeEmail, aiResult, message, runEmail,
                  runPrompts, runLog, quickNotes, keepQuickNotes, runNotes,
                  runKeep, resultEmail, oneShotMode, smartShotMode,
                  selectedEmail, fpc, fEmail>>
\* the renderer state no run reads or writes
uiVars == <<keepQuickNotes, oneShotMode, smartShotMode, selectedEmail, fpc,
            fEmail>>
ssVars == <<spc, attachments, idx, summaries, failed, disk, cleaned, ssResult>>
pipelineVars == <<storeVars, rendererVars, ssVars>>
callVars == <<input, output>>
vars == <<now, calls, hist, lastCheck, provider, keyStore, inv,
          usageCount, selectedPromptIds, rpc, oneShotStatus, smartShotStatus,
          loading, activeEmail, aiResult, message, runEmail, runPrompts,
          runLog, quickNotes, keepQuickNotes, runNotes, runKeep, resultEmail,
          oneShotMode, smartShotMode, selectedEmail, fpc, fEmail,
          spc, attachments, idx, summaries, failed, disk, cleaned,
          ssResult, input, output>>

\* ------------------------------------------------------------------------
\* rateLimiter.check (main.js:157-177)
\* ------------------------------------------------------------------------
\* t => t > windowStart, with windowStart = now - windowMs
InWindow(t) == t > now - windowMs

\* timestamps.filter(t => t > windowStart) applied to calls.get(key) || []
Filtered(key) == SelectSeq(calls[key], InWindow)

OverLimitOffByOne(n) == n > maxCalls
\* if (timestamps.length >= this.maxCalls) return false
OverLimit(n) == n >= maxCalls

\* the value returned by check(key)
CheckOk(key) == ~OverLimit(Len(Filtered(key)))

\* the registry after check(key): the filtered list with now pushed, stored
\* only when the call is accepted
CallsAfterCheck(key) ==
  IF CheckOk(key)
    THEN [calls EXCEPT ![key] = Append(Filtered(key), now)]
    ELSE calls

\* history kept beside the registry: every accepted timestamp of the key
\* that lies in (now - windowMs, now]
HistAfterCheck(key) ==
  IF CheckOk(key) THEN [hist EXCEPT ![key] = Append(@, now)] ELSE hist

CheckRecord(key) ==
  [key |-> key, ok |-> CheckOk(key), recent |-> Len(hist[key]),
   stored |-> Len(calls[key])]

\* one call of rateLimiter.check(key)
Check(key) ==
  /\ calls' = CallsAfterCheck(key)
  /\ hist' = HistAfterCheck(key)
  /\ lastCheck' = CheckRecord(key)
  /\ UNCHANGED now

\* the clock advances by d milliseconds
Tick(d) ==
  /\ now + d <= MaxTicks * TickUnit
  /\ now' = now + d
  /\ hist' = [k \in RLKeys |->
                SelectSeq(hist[k], LAMBDA t: t > (now + d) - windowMs)]
  /\ UNCHANGED <<calls, lastCheck>>

NoCheck == [key |-> "none", ok |-> TRUE, recent |-> 0, stored |-> 0]

\* rateLimiter as constructed: an empty registry
InitLimiter ==
  /\ now = 0
  /\ calls = [k \in RLKeys |-> <<>>]
  /\ hist = [k \in RLKeys |-> <<>>]
  /\ lastCheck = NoCheck

\* ------------------------------------------------------------------------
\* AI invoker (main.js:247-258, 275-354, 455-488)
\* ------------------------------------------------------------------------
\* outcomes of the HTTP POST: a usable answer, a timeout or network error,
\* a response of the wrong shape
NetOutcomes == {"ok", "timeout", "invalid"}

\* getApiKey(provider): the stored password, null when keytar throws
getApiKey(p, keytarOk) == IF keytarOk THEN keyStore[p] ELSE NoKey

KeyMissingIgnored(k) == FALSE
\* if (!apiKey)
KeyMissing(k) == k = NoKey

\* processWithAI: the local provider posts without a key; every other
\* provider reads its key first and fails without a request when none is
\* stored.  sent: an HTTP request went out; key: the key it carried.
processWithAI(net, keytarOk) ==
  IF provider = "ollama"
    THEN [sent |-> TRUE, key |-> NoKey, success |-> net = "ok",
          error |-> IF net = "ok" THEN "none" ELSE "provider"]
    ELSE LET apiKey == getApiKey(provider, keytarOk)
         IN IF KeyMissing(apiKey)
              THEN [sent |-> FALSE, key |-> NoKey, success |-> FALSE,
                    error |-> "noKey"]
              ELSE [sent |-> TRUE, key |-> apiKey, success |-> net = "ok",
                    error |-> IF net = "ok" THEN "none" ELSE "provider"]

\* analyzeImageWithAI: only the grok provider has a vision endpoint
analyzeImageWithAI(net, keytarOk) ==
  IF provider = "grok"
    THEN LET apiKey == getApiKey(provider, keytarOk)
         IN IF KeyMissing(apiKey)
              THEN [sent |-> FALSE, key |-> NoKey, success |-> FALSE,
                    error |-> "noKey"]
              ELSE [sent |-> TRUE, key |-> apiKey, success |-> net = "ok",
                    error |-> IF net = "ok" THEN "none" ELSE "provider"]
    ELSE [sent |-> FALSE, key |-> NoKey, success |-> FALSE,
          error |-> "noVision"]

\* what an AI call leaves in the invocation record
AiEffects(r) == IF r.sent THEN {"ai"} ELSE {}
AiResult(r) == IF r.success THEN "ok" ELSE r.error

\* ------------------------------------------------------------------------
\* Invocation records
\* ------------------------------------------------------------------------
\* channel: the IPC channel; checked: the keys the invocation passed to
\* rateLimiter.check; limited: the rate limiter rejected the call;
\* did: the downstream work done ("ai" an AI request, "extract" a file
\* extraction, "com" a mail-client call, "fswrite" a write of the prompt
\* store); result: what the handler returned; key: the API key of the last
\* AI request of the invocation and by: the provider it was sent to;
\* prevKey, prevBy: the same of the invocation before
Invocation(channel, checked, limited, did, result, key) ==
  [channel |-> channel, checked |-> checked, limited |-> limited,
   did |-> did, result |-> result,
   key |-> key, by |-> IF "ai" \in did THEN provider ELSE "none",
   prevKey |-> inv.key, prevBy |-> inv.by]

NoInvocation ==
  [channel |-> "none", checked |-> {}, limited |-> FALSE, did |-> {},
   result |-> "none",
   key |-> NoKey, by |-> "none", prevKey |-> NoKey, prevBy |-> "none"]

GuardedUnchecked(ok, work) == work
\* the work a handler does after its rate-limit check: none when rejected
Guarded(ok, work) == IF ok THEN work ELSE {}

\* ------------------------------------------------------------------------
\* IPC handlers with a rate limit (main.js:2805-2826, 3035-3102, 4496-4557)
\* ------------------------------------------------------------------------
\* process-with-ai: check 'ai-process', validate the prompt, call the AI
ProcessWithAiHandler(validPrompt, net, keytarOk) ==
  LET ok == CheckOk("ai-process")
      r == processWithAI(net, keytarOk)
  IN /\ Check("ai-process")
     /\ inv' = IF ~ok
                 THEN Invocation("process-with-ai", {"ai-process"}, TRUE,
                                 Guarded(ok, AiEffects(r)), "rateLimited", NoKey)
               ELSE IF ~validPrompt
                 THEN Invocation("process-with-ai", {"ai-process"}, FALSE, {}, "invalid", NoKey)
               ELSE Invocation("process-with-ai", {"ai-process"}, FALSE,
                               Guarded(ok, AiEffects(r)), AiResult(r), r.key)
     /\ UNCHANGED settingsVars

\* outcomes of the createReply COM call: the reply window opened, the
\* collaborator returned success=false, the bridge reported an error, or
\* edge / the reply function is not available
ComOutcomes == {"ok", "fail", "error", "noEdge"}

ComEffects(com) == IF com = "noEdge" THEN {} ELSE {"com"}

\* create-reply-in-outlook: check 'outlook-reply', validate, clean the body,
\* call the mail client
CreateReplyHandler(validInput, com) ==
  LET ok == CheckOk("outlook-reply")
  IN /\ Check("outlook-reply")
     /\ inv' = IF ~ok
                 THEN Invocation("create-reply-in-outlook", {"outlook-reply"}, TRUE,
                                 Guarded(ok, ComEffects(com)), "rateLimited", NoKey)
               ELSE IF ~validInput
                 THEN Invocation("create-reply-in-outlook", {"outlook-reply"}, FALSE, {},
                                 "invalid", NoKey)
               ELSE Invocation("create-reply-in-outlook", {"outlook-reply"}, FALSE,
                               Guarded(ok, ComEffects(com)),
                               IF com = "ok" THEN "ok" ELSE "comError", NoKey)
     /\ UNCHANGED settingsVars

\* what extractTextFromFile found: a failure, an image with usable OCR
\* text, an image without, a scanned PDF, plain extracted text
ExtractKinds == {"fail", "imageOcr", "imageVision", "scanned", "text"}

\* the AI call analyze-file makes for each kind of extraction, if any
AnalyzeAi(kind, net, keytarOk) ==
  CASE kind = "imageOcr" -> processWithAI(net, keytarOk)
    [] kind = "text" -> processWithAI(net, keytarOk)
    [] kind = "imageVision" -> analyzeImageWithAI(net, keytarOk)
    [] OTHER -> [sent |-> FALSE, key |-> NoKey,
                 success |-> kind = "scanned",
                 error |-> IF kind = "scanned" THEN "none" ELSE "extractError"]

\* analyze-file: check 'file-analysis', extract the text, analyze it
AnalyzeFileHandler(kind, net, keytarOk) ==
  LET ok == CheckOk("file-analysis")
      r == AnalyzeAi(kind, net, keytarOk)
  IN /\ Check("file-analysis")
     /\ inv' = IF ~ok
                 THEN Invocation("analyze-file", {"file-analysis"}, TRUE,
                                 Guarded(ok, {"extract"} \cup AiEffects(r)),
                                 "rateLimited", NoKey)
               ELSE Invocation("analyze-file", {"file-analysis"}, FALSE,
                               Guarded(ok, {"extract"} \cup AiEffects(r)),
                               AiResult(r), r.key)
     /\ UNCHANGED settingsVars

\* ------------------------------------------------------------------------
\* Settings handlers (main.js:2718-2802, 2829-2836)
\* ------------------------------------------------------------------------
\* save-ai-settings: store the key of the provider when one is given (the
\* write may fail and is then ignored), then switch to the provider
SaveAiSettings(p, k, saved) ==
  /\ provider' = p
  /\ keyStore' = IF k # NoKey /\ saved THEN [keyStore EXCEPT ![p] = k]
                 ELSE keyStore
  /\ UNCHANGED <<limiterVars, inv, pipelineVars, callVars>>

\* test-ai-connection: one AI call, no rate limit
TestAiConnection(net, keytarOk) ==
  LET r == processWithAI(net, keytarOk)
  IN /\ inv' = Invocation("test-ai-connection", {}, FALSE, AiEffects(r),
                          AiResult(r), r.key)
     /\ UNCHANGED <<limiterVars, settingsVars, pipelineVars, callVars>>

\* ------------------------------------------------------------------------
\* process-with-multi-prompts (main.js:3699-3748)
\* ------------------------------------------------------------------------
UsageAfterStaleLoad(promptIds) ==
  [p \in DOMAIN usageCount |->
     Cardinality({i \in DOMAIN promptIds : promptIds[i] = p})]
\* the prompt store after the handler used the templates of promptIds:
\* usageCount + 1 for each one found in the store, saved when promptIds is
\* not empty
UsageAfter(promptIds) ==
  [p \in DOMAIN usageCount |->
     usageCount[p] + Cardinality({i \in DOMAIN promptIds : promptIds[i] = p})]

\* savePrompts is called only inside if (promptIds && promptIds.length > 0)
ComposeEffects(promptIds) == IF Len(promptIds) > 0 THEN {"fswrite"} ELSE {}

\* the whole handler: load the store, count the use of every template, save
\* the store, compose the prompt, call the AI; no rate-limit check is made
MultiPromptsHandler(promptIds, net, keytarOk) ==
  LET r == processWithAI(net, keytarOk)
  IN /\ usageCount' = UsageAfter(promptIds)
     /\ inv' = Invocation("process-with-multi-prompts", {}, FALSE,
                          ComposeEffects(promptIds) \cup AiEffects(r),
                          AiResult(r), r.key)
     /\ UNCHANGED <<limiterVars, settingsVars>>

\* ------------------------------------------------------------------------
\* smart-shot (main.js:3751-4008)
\* ------------------------------------------------------------------------
\* the value the handler returns: success is false when the outer catch
\* ran; composed: the prompt was composed; aiSuccess: aiResult.success
SsReturn(success, composed, aiSuccess, error) ==
  [success |-> success, composed |-> composed, aiSuccess |-> aiSuccess,
   error |-> error]

NoSsResult == SsReturn(FALSE, FALSE, FALSE, "none")

\* outcomes of step 1: the bridge is not available; mkdirSync throws; the bridge calls back with an
\* error after the collaborator ran; the collaborator returns
\* success=false; the collaborator returns the saved files
AttachOutcomes == {"noBridge", "mkdirThrows", "bridgeError", "resultFail",
                   "files"}

FileSeq(n) == [i \in 1..n |-> i]

\* step 1 (3765-3800): ask the mail client to save the attachments
SsExtract ==
  /\ spc = "extract"
  /\ IF runEmail = ""
       THEN /\ attachments' = <<>>
            /\ spc' = "compose"
            /\ inv' = Invocation("smart-shot", {}, FALSE, {}, "running", NoKey)
            /\ UNCHANGED <<disk, ssResult>>
       ELSE \E out \in AttachOutcomes, n \in 0..MaxAttachments :
              CASE out = "noBridge" ->
                     /\ attachments' = <<>>
                     /\ disk' = {}
                     /\ spc' = "compose"
                     /\ inv' = Invocation("smart-shot", {}, FALSE, {},
                                          "running", NoKey)
                     /\ UNCHANGED ssResult
                [] out = "mkdirThrows" ->
                     /\ attachments' = <<>>
                     /\ disk' = {}
                     /\ spc' = "done"
                     /\ ssResult' = SsReturn(FALSE, FALSE, FALSE, "exception")
                     /\ inv' = Invocation("smart-shot", {}, FALSE, {},
                                          "exception", NoKey)
                [] out = "bridgeError" ->
                     /\ attachments' = <<>>
                     /\ disk' = 1..n
                     /\ spc' = "done"
                     /\ ssResult' = SsReturn(FALSE, FALSE, FALSE, "exception")
                     /\ inv' = Invocation("smart-shot", {}, FALSE, {"attach"},
                                          "exception", NoKey)
                [] out = "resultFail" ->
                     /\ attachments' = <<>>
                     /\ disk' = {}
                     /\ spc' = "compose"
                     /\ inv' = Invocation("smart-shot", {}, FALSE, {"attach"},
                                          "running", NoKey)
                     /\ UNCHANGED ssResult
                [] out = "files" ->
                     /\ attachments' = FileSeq(n)
                     /\ disk' = 1..n
                     /\ spc' = IF n > 0 THEN "loop" ELSE "compose"
                     /\ inv' = Invocation("smart-shot", {}, FALSE, {"attach"},
                                          "running", NoKey)
                     /\ UNCHANGED ssResult
  /\ idx' = 1
  /\ UNCHANGED <<summaries, failed, cleaned>>
  /\ UNCHANGED <<limiterVars, settingsVars, storeVars, rendererVars>>
  /\ UNCHANGED callVars

\* what happens to one file: the parser or the read throws; no text comes
\* out; text comes out and is sent to the AI for its key points
FileOutcomes == {"throws", "empty", "text"}

\* the summary pushed for the file: an error marker unless the AI answered
SummaryKind(x, r) ==
  CASE x = "throws" -> "exception"
    [] x = "empty" -> "noText"
    [] OTHER -> IF r.success THEN "ok" ELSE "aiError"

NextAfterFileStops(i, n, kind) ==
  IF i = n \/ kind # "ok" THEN "compose" ELSE "loop"
\* the loop goes on to the next file whatever happened to this one
NextAfterFile(i, n, kind) == IF i = n THEN "compose" ELSE "loop"

\* step 2 (3802-3930): one iteration of the attachment loop
SsAttachmentWith(x, net, kt) ==
  /\ spc = "loop"
  /\ LET file == attachments[idx]
         r == processWithAI(net, kt)
         kind == SummaryKind(x, r)
         fail == x # "text" \/ ~r.success
     IN /\ summaries' = Append(summaries, [file |-> file, kind |-> kind])
        /\ failed' = IF fail THEN failed \cup {file} ELSE failed
        /\ spc' = NextAfterFile(idx, Len(attachments), kind)
        /\ inv' = [inv EXCEPT
                     !.did = @ \cup {"extract"} \cup
                             (IF x = "text" THEN AiEffects(r) ELSE {}),
                     !.key = IF x = "text" /\ r.sent THEN r.key ELSE @,
                     !.by = IF x = "text" /\ r.sent THEN provider ELSE @]
  /\ idx' = idx + 1
  /\ UNCHANGED <<attachments, disk, cleaned, ssResult>>
  /\ UNCHANGED <<limiterVars, settingsVars, storeVars, rendererVars>>

SsAttachment ==
  /\ \E x \in FileOutcomes, net \in NetOutcomes, kt \in BOOLEAN :
       SsAttachmentWith(x, net, kt)
  /\ UNCHANGED callVars

\* steps 3 and 4 (3932-3977): build the attachment context, load the store,
\* count the use of every template, save the store, compose the prompt
SsComposeStep ==
  /\ spc = "compose"
  /\ usageCount' = UsageAfter(runPrompts)
  /\ inv' = [inv EXCEPT !.did = @ \cup ComposeEffects(runPrompts)]
  /\ spc' = "mainAI"
  /\ UNCHANGED <<attachments, idx, summaries, failed, disk, cleaned, ssResult>>
  /\ UNCHANGED <<limiterVars, settingsVars, rendererVars>>

SsCompose == SsComposeStep /\ UNCHANGED callVars

\* the files the clean-up loop tries to unlink: those of the attachments
\* the handler holds
CleanupTargets == {attachments[i] : i \in DOMAIN attachments}

\* step 5 and the end (3979-4002): the main AI call, the clean-up of the
\* temporary files (unlink errors ignored), the return
SsMainAIStep ==
  /\ spc = "mainAI"
  /\ \E net \in NetOutcomes, kt \in BOOLEAN, stuck \in SUBSET CleanupTargets :
       LET r == processWithAI(net, kt)
       IN /\ ssResult' = SsReturn(TRUE, TRUE, r.success, r.error)
          /\ cleaned' = CleanupTargets
          /\ disk' = disk \ (CleanupTargets \ stuck)
          /\ inv' = [inv EXCEPT !.did = @ \cup AiEffects(r),
                                !.result = AiResult(r),
                                !.key = IF r.sent THEN r.key ELSE @,
                                !.by = IF r.sent THEN provider ELSE @]
  /\ spc' = "done"
  /\ UNCHANGED <<attachments, idx, summaries, failed>>
  /\ UNCHANGED <<limiterVars, settingsVars, storeVars, rendererVars>>

SsMainAI == SsMainAIStep /\ UNCHANGED callVars

\* ------------------------------------------------------------------------
\* Renderer: the user's controls
\* ------------------------------------------------------------------------
NotLoading == [active |-> FALSE, ai |-> FALSE]

\* the selections the user can make: sequences of distinct template ids
Selections ==
  {<<>>} \cup {<<p>> : p \in PromptIds} \cup
  {s \in {<<p, q>> : p \in PromptIds, q \in PromptIds} : s[1] # s[2]}

\* the user ticks or unticks templates
SelectPrompts ==
  /\ \E sel \in Selections :
       /\ sel # selectedPromptIds
       /\ selectedPromptIds' = sel
  /\ UNCHANGED <<rpc, oneShotStatus, smartShotStatus, loading, activeEmail,
                 aiResult, message, runEmail, runPrompts, runLog>>
  /\ UNCHANGED <<quickNotes, runNotes, runKeep, resultEmail, uiVars>>
  /\ UNCHANGED <<limiterVars, settingsVars, inv, storeVars, ssVars>>
  /\ UNCHANGED callVars

\* disabled={loading.active || loading.ai || selectedPromptIds.length === 0}
ButtonEnabled ==
  /\ ~loading.active
  /\ ~loading.ai
  /\ Len(selectedPromptIds) > 0

\* aiSettings?.hasApiKey || aiSettings?.provider === 'ollama'
AiConfigured == keyStore[provider] # NoKey \/ provider = "ollama"

\* no template of the selection has reached the usage bound
UsageInBound == \A i \in DOMAIN selectedPromptIds :
                  usageCount[selectedPromptIds[i]] < MaxUsage

\* what the run logs about a call that returned: the failure, if any, and
\* the call the handler makes next, if any
Logged(success, failure, nextCall) ==
  (IF success THEN {} ELSE {failure}) \cup nextCall

FetchFailedIgnored(ok) == FALSE
\* if (!emailResult.success)
FetchFailed(ok) == ~ok

AiFailedIgnored(success) == FALSE
\* if (!aiResponse.success) and if (!result.aiResult?.success)
AiFailed(success) == ~success

AiResultAfterReplyDropped(shown, success) == IF success THEN shown ELSE Null
\* the delivering stage shows a message and never calls setAiResult: the
\* result set before the reply stays whatever createReplyInOutlook returns
AiResultAfterReply(shown, success) == shown

\* if (!keepQuickNotes) setQuickNotes('')
NotesAfterUse(notes, keep) == IF keep THEN notes ELSE ""

RunFinallyFetchFlagOnly(statusVar) ==
  /\ loading' = [loading EXCEPT !.active = FALSE]
  /\ statusVar' = Null
  /\ rpc' = "idle"
\* the finally block of both handlers
RunFinally(statusVar) ==
  /\ loading' = NotLoading
  /\ statusVar' = Null
  /\ rpc' = "idle"

\* ------------------------------------------------------------------------
\* Renderer: handleOneShot (part_002:602-686)
\* ------------------------------------------------------------------------
\* lines 602-622: the guards, the reset, the call of getActiveEmail
OneShotStart ==
  /\ rpc = "idle"
  /\ ButtonEnabled
  /\ UsageInBound
  /\ AiConfigured
  /\ activeEmail' = Null
  /\ aiResult' = Null
  /\ oneShotStatus' = "fetching"
  /\ loading' = [loading EXCEPT !.active = TRUE]
  /\ resultEmail' = Null
  /\ runPrompts' = selectedPromptIds
  /\ runNotes' = quickNotes
  /\ runKeep' = keepQuickNotes
  /\ runLog' = {"fetch"}
  /\ rpc' = "os_fetch"
  /\ UNCHANGED <<selectedPromptIds, smartShotStatus, message, runEmail>>
  /\ UNCHANGED <<quickNotes, uiVars>>
  /\ UNCHANGED <<limiterVars, settingsVars, inv, storeVars, ssVars>>
  /\ UNCHANGED callVars

\* lines 622-637: getActiveEmail returned
OneShotFetched ==
  /\ rpc = "os_fetch"
  /\ \E ok \in BOOLEAN, id \in EntryIds :
       IF FetchFailed(ok)
         THEN /\ message' = "warning"
              /\ runLog' = runLog \cup Logged(ok, "fetchFailed", {})
              /\ RunFinally(oneShotStatus)
              /\ UNCHANGED <<activeEmail, runEmail>>
         ELSE /\ runEmail' = id
              /\ activeEmail' = id
              /\ message' = "info"
              /\ oneShotStatus' = "processing"
              /\ loading' = [active |-> FALSE, ai |-> TRUE]
              /\ runLog' = runLog \cup Logged(ok, "fetchFailed", {"multi"})
              /\ rpc' = "os_ai"
  /\ UNCHANGED <<selectedPromptIds, smartShotStatus, aiResult, runPrompts>>
  /\ UNCHANGED <<quickNotes, runNotes, runKeep, resultEmail, uiVars>>
  /\ UNCHANGED <<limiterVars, settingsVars, inv, storeVars, ssVars>>
  /\ UNCHANGED callVars

\* lines 637-671: process-with-multi-prompts ran and returned
OneShotProcessed ==
  /\ rpc = "os_ai"
  /\ \E net \in NetOutcomes, kt \in BOOLEAN :
       /\ MultiPromptsHandler(runPrompts, net, kt)
       /\ IF AiFailed(inv'.result = "ok")
            THEN /\ message' = "error"
                 /\ runLog' = runLog \cup Logged(inv'.result = "ok", "aiFailed", {})
                 /\ RunFinally(oneShotStatus)
                 /\ UNCHANGED <<aiResult, resultEmail, quickNotes>>
          ELSE IF runEmail = ""
            THEN /\ aiResult' = "content"
                 /\ resultEmail' = runEmail
                 /\ quickNotes' = NotesAfterUse(quickNotes, runKeep)
                 /\ message' = "warning"
                 /\ runLog' = runLog \cup Logged(inv'.result = "ok", "aiFailed", {})
                 /\ RunFinally(oneShotStatus)
          ELSE /\ aiResult' = "content"
               /\ resultEmail' = runEmail
               /\ quickNotes' = NotesAfterUse(quickNotes, runKeep)
               /\ message' = "info"
               /\ oneShotStatus' = "sending"
               /\ runLog' = runLog \cup
                            Logged(inv'.result = "ok", "aiFailed", {"reply"})
               /\ rpc' = "os_send"
               /\ UNCHANGED loading
  /\ UNCHANGED <<selectedPromptIds, smartShotStatus, activeEmail, runEmail,
                 runPrompts, runNotes, runKeep, uiVars>>
  /\ UNCHANGED ssVars
  /\ UNCHANGED callVars

\* lines 667-685: create-reply-in-outlook ran and returned
OneShotReplied ==
  /\ rpc = "os_send"
  /\ \E com \in ComOutcomes :
       /\ CreateReplyHandler(TRUE, com)
       /\ message' = IF inv'.result = "ok" THEN "success" ELSE "error"
       /\ aiResult' = AiResultAfterReply(aiResult, inv'.result = "ok")
       /\ runLog' = runLog \cup Logged(inv'.result = "ok", "replyFailed", {})
  /\ RunFinally(oneShotStatus)
  /\ UNCHANGED <<selectedPromptIds, smartShotStatus, activeEmail, runEmail,
                 runPrompts>>
  /\ UNCHANGED <<quickNotes, runNotes, runKeep, resultEmail, uiVars>>
  /\ UNCHANGED <<storeVars, ssVars>>
  /\ UNCHANGED callVars

\* ------------------------------------------------------------------------
\* Renderer: handleSmartShot (part_002:689-792)
\* ------------------------------------------------------------------------
\* lines 689-710: the guards, the reset, the call of getActiveEmail
SmartShotStart ==
  /\ rpc = "idle"
  /\ ButtonEnabled
  /\ UsageInBound
  /\ AiConfigured
  /\ activeEmail' = Null
  /\ aiResult' = Null
  /\ smartShotStatus' = "fetching"
  /\ loading' = [loading EXCEPT !.active = TRUE]
  /\ resultEmail' = Null
  /\ runPrompts' = selectedPromptIds
  /\ runNotes' = quickNotes
  /\ runKeep' = keepQuickNotes
  /\ runLog' = {"fetch"}
  /\ rpc' = "ss_fetch"
  /\ UNCHANGED <<selectedPromptIds, oneShotStatus, message, runEmail>>
  /\ UNCHANGED <<quickNotes, uiVars>>
  /\ UNCHANGED <<limiterVars, settingsVars, inv, storeVars, ssVars>>
  /\ UNCHANGED callVars

\* lines 710-728: getActiveEmail returned; on success smartShot is invoked
SmartShotFetched ==
  /\ rpc = "ss_fetch"
  /\ \E ok \in BOOLEAN, id \in EntryIds :
       IF FetchFailed(ok)
         THEN /\ message' = "warning"
              /\ runLog' = runLog \cup Logged(ok, "fetchFailed", {})
              /\ RunFinally(smartShotStatus)
              /\ UNCHANGED <<activeEmail, runEmail, ssVars>>
         ELSE /\ runEmail' = id
              /\ activeEmail' = id
              /\ message' = "info"
              /\ smartShotStatus' = "analyzing"
              /\ loading' = [active |-> FALSE, ai |-> TRUE]
              /\ runLog' = runLog \cup Logged(ok, "fetchFailed", {"smartShot"})
              /\ rpc' = "ss_main"
              /\ spc' = "extract"
              /\ attachments' = <<>>
              /\ idx' = 1
              /\ summaries' = <<>>
              /\ failed' = {}
              /\ disk' = {}
              /\ cleaned' = {}
              /\ ssResult' = NoSsResult
  /\ UNCHANGED <<selectedPromptIds, oneShotStatus, aiResult, runPrompts>>
  /\ UNCHANGED <<quickNotes, runNotes, runKeep, resultEmail, uiVars>>
  /\ UNCHANGED <<limiterVars, settingsVars, inv, storeVars>>
  /\ UNCHANGED callVars

\* lines 728-777: smartShot returned
SmartShotReturned ==
  /\ rpc = "ss_main"
  /\ spc = "done"
  /\ spc' = "idle"
  /\ IF ~ssResult.success
       THEN /\ message' = "error"
            /\ runLog' = runLog \cup {"smartShotFailed"}
            /\ RunFinally(smartShotStatus)
            /\ UNCHANGED <<aiResult, resultEmail, quickNotes>>
     ELSE IF AiFailed(ssResult.aiSuccess)
       THEN /\ message' = "error"
            /\ runLog' = runLog \cup Logged(ssResult.aiSuccess, "aiFailed", {})
            /\ RunFinally(smartShotStatus)
            /\ UNCHANGED <<aiResult, resultEmail, quickNotes>>
     ELSE IF runEmail = ""
       THEN /\ aiResult' = "content"
            /\ resultEmail' = runEmail
            /\ quickNotes' = NotesAfterUse(quickNotes, runKeep)
            /\ message' = "warning"
            /\ runLog' = runLog \cup Logged(ssResult.aiSuccess, "aiFailed", {})
            /\ RunFinally(smartShotStatus)
     ELSE /\ aiResult' = "content"
          /\ resultEmail' = runEmail
          /\ quickNotes' = NotesAfterUse(quickNotes, runKeep)
          /\ message' = "info"
          /\ smartShotStatus' = "sending"
          /\ runLog' = runLog \cup
                       Logged(ssResult.aiSuccess, "aiFailed", {"reply"})
          /\ rpc' = "ss_send"
          /\ UNCHANGED loading
  /\ UNCHANGED <<selectedPromptIds, oneShotStatus, activeEmail, runEmail,
                 runPrompts, runNotes, runKeep, uiVars>>
  /\ UNCHANGED <<attachments, idx, summaries, failed, disk, cleaned, ssResult>>
  /\ UNCHANGED <<limiterVars, settingsVars, inv, storeVars>>
  /\ UNCHANGED callVars

\* lines 773-791: create-reply-in-outlook ran and returned
SmartShotReplied ==
  /\ rpc = "ss_send"
  /\ \E com \in ComOutcomes :
       /\ CreateReplyHandler(TRUE, com)
       /\ message' = IF inv'.result = "ok" THEN "success" ELSE "error"
       /\ aiResult' = AiResultAfterReply(aiResult, inv'.result = "ok")
       /\ runLog' = runLog \cup Logged(inv'.result = "ok", "replyFailed", {})
  /\ RunFinally(smartShotStatus)
  /\ UNCHANGED <<selectedPromptIds, oneShotStatus, activeEmail, runEmail,
                 runPrompts>>
  /\ UNCHANGED <<quickNotes, runNotes, runKeep, resultEmail, uiVars>>
  /\ UNCHANGED <<storeVars, ssVars>>
  /\ UNCHANGED callVars

\* ------------------------------------------------------------------------
\* Initial values of the pipeline state
\* ------------------------------------------------------------------------
\* the renderer with no run going on
InitRenderer ==
  /\ selectedPromptIds = <<>>
  /\ rpc = "idle"
  /\ oneShotStatus = Null
  /\ smartShotStatus = Null
  /\ loading = NotLoading
  /\ activeEmail = Null
  /\ aiResult = Null
  /\ message = Null
  /\ quickNotes = ""
  /\ keepQuickNotes = FALSE
  /\ runNotes = ""
  /\ runKeep = FALSE
  /\ resultEmail = Null
  /\ oneShotMode = FALSE
  /\ smartShotMode = FALSE
  /\ selectedEmail = Null
  /\ fpc = "idle"
  /\ fEmail = Null

InitPipelineVars ==
  /\ usageCount = [p \in PromptIds |-> 0]
  /\ InitRenderer
  /\ runEmail = Null
  /\ runPrompts = <<>>
  /\ runLog = {}
  /\ spc = "idle"
  /\ attachments = <<>>
  /\ idx = 1
  /\ summaries = <<>>
  /\ failed = {}
  /\ disk = {}
  /\ cleaned = {}
  /\ ssResult = NoSsResult

\* ------------------------------------------------------------------------
\* The provider calls and their response validation (main.js:275-354)
\* ------------------------------------------------------------------------
\* the body of an HTTP response: data is response.data being truthy;
\* choices is data.choices (absent, [], or one element); message is the
\* message object being there (choices[0].message for the OpenAI shape,
\* data.message for Ollama); content is message.content
\* axios.post resolves with a response or throws (timeout, refused, 4xx/5xx).
\* The result object { success, content | error }:
AiSuccess(content) == [success |-> TRUE, content |-> content, error |-> "none"]
AiFailure(error) == [success |-> FALSE, content |-> "absent", error |-> error]

\* processWithGrokAPI: choices[0] truthy is all that is tested; reading
\* .content of a missing message throws a TypeError the catch reports
processWithGrokAPI(post, body) ==
  IF post # "response" THEN AiFailure(post)
  ELSE IF body.data /\ body.choices = "one"
    THEN IF body.message THEN AiSuccess(body.content)
         ELSE AiFailure("typeError")
  ELSE AiFailure("invalid")

\* processWithOllama: data.message truthy is all that is tested
processWithOllama(post, body) ==
  IF post # "response" THEN AiFailure(post)
  ELSE IF body.data /\ body.message THEN AiSuccess(body.content)
  ELSE AiFailure("invalid")

\* processWithAI (main.js:473-487) down to the fields of the response
processWithAIBody(post, body, keytarOk) ==
  IF provider = "ollama" THEN processWithOllama(post, body)
  ELSE IF KeyMissing(getApiKey(provider, keytarOk)) THEN AiFailure("noKey")
  ELSE processWithGrokAPI(post, body)

\* ------------------------------------------------------------------------
\* cleanAiOutput (main.js:421-452)
\* ------------------------------------------------------------------------
\* a text is a sequence of characters; "h" stands for the scheme http://
\* or https://, "q" for the backquote, "a" for any other character without
\* a role in the patterns
Whitespace == {" ", "\n"}

\* the length of the longest run of characters outside stop that starts at i
RECURSIVE Run(_, _, _)
Run(s, i, stop) ==
  IF i > Len(s) \/ s[i] \in stop THEN 0 ELSE 1 + Run(s, i + 1, stop)

\* the length of the longest run of the character c that starts at i
RECURSIVE RunOf(_, _, _)
RunOf(s, i, c) ==
  IF i > Len(s) \/ s[i] # c THEN 0 ELSE 1 + RunOf(s, i + 1, c)

\* s[i] = c, false beyond the end of s
At(s, i, c) == i >= 1 /\ i <= Len(s) /\ s[i] = c

NoMatch == [len |-> 0, out |-> <<>>]

\* the match of a pattern at position i of s: how many characters it
\* covers and what replaces them; len = 0 when the pattern does not match
\*   url      /<(https?:\/\/[^>]+)>/g           -> $1
\*   link     /\[([^\]]+)\]\([^)]+\)/g          -> $1
\*   bold     /\*\*([^*]+)\*\*/g                -> $1
\*   italic   /(?<!\n)\*([^*\n]+)\*(?!\*)/g     -> $1
\*   code     /q([^q]+)q/g with q the backquote -> $1
\*   spaces   /  +/g                            -> ' '
\*   newlines /\n{3,}/g                         -> '\n\n'
Match(pat, s, i) ==
  CASE pat = "url" ->
         LET n == Run(s, i + 2, {">"})
         IN IF At(s, i, "<") /\ At(s, i + 1, "h") /\ n >= 1
               /\ At(s, i + 2 + n, ">")
              THEN [len |-> n + 3, out |-> SubSeq(s, i + 1, i + 1 + n)]
              ELSE NoMatch
    [] pat = "link" ->
         LET n == Run(s, i + 1, {"]"})
             m == Run(s, i + 3 + n, {")"})
         IN IF At(s, i, "[") /\ n >= 1 /\ At(s, i + 1 + n, "]")
               /\ At(s, i + 2 + n, "(") /\ m >= 1 /\ At(s, i + 3 + n + m, ")")
              THEN [len |-> n + m + 4, out |-> SubSeq(s, i + 1, i + n)]
              ELSE NoMatch
    [] pat = "bold" ->
         LET n == Run(s, i + 2, {"*"})
         IN IF At(s, i, "*") /\ At(s, i + 1, "*") /\ n >= 1
               /\ At(s, i + 2 + n, "*") /\ At(s, i + 3 + n, "*")
              THEN [len |-> n + 4, out |-> SubSeq(s, i + 2, i + 1 + n)]
              ELSE NoMatch
    [] pat = "italic" ->
         LET n == Run(s, i + 1, {"*", "\n"})
         IN IF At(s, i, "*") /\ ~At(s, i - 1, "\n") /\ n >= 1
               /\ At(s, i + 1 + n, "*") /\ ~At(s, i + 2 + n, "*")
              THEN [len |-> n + 2, out |-> SubSeq(s, i + 1, i + n)]
              ELSE NoMatch
    [] pat = "code" ->
         LET n == Run(s, i + 1, {"q"})
         IN IF At(s, i, "q") /\ n >= 1 /\ At(s, i + 1 + n, "q")
              THEN [len |-> n + 2, out |-> SubSeq(s, i + 1, i + n)]
              ELSE NoMatch
    [] pat = "spaces" ->
         LET n == RunOf(s, i, " ")
         IN IF n >= 2 THEN [len |-> n, out |-> <<" ">>] ELSE NoMatch
    [] pat = "newlines" ->
         LET n == RunOf(s, i, "\n")
         IN IF n >= 3 THEN [len |-> n, out |-> <<"\n", "\n">>] ELSE NoMatch

\* String.prototype.replace with a global pattern: scan from the left, put
\* the replacement for each match and go on after it
RECURSIVE ReplaceFrom(_, _, _)
ReplaceFrom(pat, s, i) ==
  IF i > Len(s) THEN <<>>
  ELSE LET m == Match(pat, s, i)
       IN IF m.len > 0 THEN m.out \o ReplaceFrom(pat, s, i + m.len)
          ELSE <<s[i]>> \o ReplaceFrom(pat, s, i + 1)

\* String.prototype.trim
RECURSIVE TrimStart(_)
TrimStart(s) ==
  IF s # <<>> /\ Head(s) \in Whitespace THEN TrimStart(Tail(s)) ELSE s

RECURSIVE TrimEnd(_)
TrimEnd(s) ==
  IF s # <<>> /\ s[Len(s)] \in Whitespace
    THEN TrimEnd(SubSeq(s, 1, Len(s) - 1)) ELSE s

Trim(s) == TrimEnd(TrimStart(s))

\* the replacements in the order of the code, then trim() and the removal
\* of trailing whitespace
cleanAiOutput(text) ==
  LET Replace(pat, s) == ReplaceFrom(pat, s, 1)
  IN IF text = <<>> THEN text
     ELSE TrimEnd(Trim(
            Replace("newlines", Replace("spaces", Replace("code",
              Replace("italic", Replace("bold", Replace("link",
                Replace("url", text)))))))))

ReplyBodyPassedRaw(replyBody) == replyBody
\* create-reply-in-outlook hands cleanedReplyBody to createReply
\* (main.js:3053, 3079)
ReplyBodyPassed(replyBody) == cleanAiOutput(replyBody)

\* ------------------------------------------------------------------------
\* replacePlaceholders (main.js:3307-3327)
\* ------------------------------------------------------------------------
\* a text is a sequence of tokens; a placeholder is one token, the other
\* tokens are pieces of literal text
\* the keys of replacements, in the order Object.entries yields them
Placeholders ==
  <<"{email_body}", "{subject}", "{sender}", "{sender_email}",
    "{sender_name}", "{to}", "{cc}", "{date}">>

\* replacements[placeholder]; a || b: the empty string is falsy
ValueOf(ph, e) ==
  CASE ph = "{email_body}" -> e.body
    [] ph = "{subject}" -> e.subject
    [] ph = "{sender}" -> (IF e.senderName # <<>> THEN e.senderName
                          ELSE e.senderEmail)
    [] ph = "{sender_email}" -> e.senderEmail
    [] ph = "{sender_name}" -> e.senderName
    [] ph = "{to}" -> e.to
    [] ph = "{cc}" -> e.cc
    [] ph = "{date}" -> e.receivedTime

\* result.split(placeholder).join(value)
RECURSIVE SplitJoin(_, _, _)
SplitJoin(s, ph, value) ==
  IF s = <<>> THEN <<>>
  ELSE (IF Head(s) = ph THEN value ELSE <<Head(s)>>)
       \o SplitJoin(Tail(s), ph, value)

\* the for loop over the entries, from entry k on
RECURSIVE ReplaceEntries(_, _, _)
ReplaceEntries(result, k, e) ==
  IF k > Len(Placeholders) THEN result
  ELSE ReplaceEntries(SplitJoin(result, Placeholders[k],
                                ValueOf(Placeholders[k], e)), k + 1, e)

replacePlaceholdersPlusSubject(template, e) == template \o e.subject
\* if (!emailData) return template; otherwise the loop over the entries
replacePlaceholders(template, e) ==
  IF ~e.present THEN template ELSE ReplaceEntries(template, 1, e)

\* ------------------------------------------------------------------------
\* Composition of the prompt (main.js:3703-3734, 3932-3977, 463-471)
\* ------------------------------------------------------------------------
\* the prompt store the compositions under study run against
PromptStore ==
  [p \in {"p1", "p2", "p3"} |->
     CASE p = "p1" -> [name |-> "Reply", template |-> <<"{email_body}">>]
       [] p = "p2" -> [name |-> "Brief", template |-> <<"Be brief.">>]
       [] p = "p3" -> [name |-> "Ack",
                       template |-> <<"Thank ", "{sender}", " for ",
                                      "{subject}", " ", "{unknown}">>]]

\* prompts.find(p => p.id === promptId) succeeds
Found(promptId) == promptId \in DOMAIN PromptStore

AddBlockInFront(combinedPrompt, block) == block \o combinedPrompt
\* combinedPrompt += block
AddBlock(combinedPrompt, block) == combinedPrompt \o block

\* the for loop over promptIds, from index i on; the block of a template
\* is '### ' + prompt.name + ':\n' + processedTemplate + '\n\n'
RECURSIVE CombineFrom(_, _, _, _)
CombineFrom(combinedPrompt, promptIds, i, e) ==
  IF i > Len(promptIds) THEN combinedPrompt
  ELSE IF Found(promptIds[i])
    THEN LET prompt == PromptStore[promptIds[i]]
             processedTemplate == replacePlaceholders(prompt.template, e)
         IN CombineFrom(AddBlock(combinedPrompt,
                                 <<"### ", prompt.name, ":\n">>
                                 \o processedTemplate \o <<"\n\n">>),
                        promptIds, i + 1, e)
  ELSE CombineFrom(combinedPrompt, promptIds, i + 1, e)

\* usedPromptNames
RECURSIVE UsedNamesFrom(_, _)
UsedNamesFrom(promptIds, i) ==
  IF i > Len(promptIds) THEN <<>>
  ELSE (IF Found(promptIds[i]) THEN <<PromptStore[promptIds[i]].name>>
        ELSE <<>>) \o UsedNamesFrom(promptIds, i + 1)

Fallback == <<"Please analyze and respond to this email:">>

OrFallbackNone(combinedPrompt) == combinedPrompt
\* if (!combinedPrompt) combinedPrompt = 'Please analyze ...'
OrFallback(combinedPrompt) ==
  IF combinedPrompt = <<>> THEN Fallback ELSE combinedPrompt

\* if (quickNotes && quickNotes.trim()) combinedPrompt += ...
QuickNotesBlock(notes) ==
  IF Trim(notes) # <<>>
    THEN <<"\n### Additional Instructions (one-time):\n">>
         \o Trim(notes) \o <<"\n">>
    ELSE <<>>

\* the entries of the attachment context (the document sign of the source
\* is written [doc] here)
RECURSIVE SummaryEntries(_)
SummaryEntries(atts) ==
  IF atts = <<>> THEN <<>>
  ELSE <<"\n[doc] File: ", ToString(Head(atts).file),
         "\nKey Information:\n", Head(atts).kind, "\n">>
       \o SummaryEntries(Tail(atts))

\* step 3 of smart-shot: attachmentContext
AttachmentContext(atts) ==
  IF Len(atts) > 0
    THEN <<"\n\n--- ATTACHMENT SUMMARIES ---\n">> \o SummaryEntries(atts)
         \o <<"\n--- END ATTACHMENTS ---\n">>
         \o <<"\nPlease consider both the email content AND the attachment information above when drafting your response.">>
    ELSE <<>>

\* the combined prompt of process-with-multi-prompts and of smart-shot
\* (which passes its summaries; the other handler has none)
CombinedPrompt(promptIds, e, notes, atts) ==
  OrFallback(CombineFrom(<<>>, promptIds, 1, e))
  \o QuickNotesBlock(notes) \o AttachmentContext(atts)

\* the block processWithAI appends when it is given the email
EmailBlock(e) ==
  <<"\n\n--- EMAIL ---\nSubject: ">> \o e.subject \o <<"\nFrom: ">>
  \o e.senderName \o <<" <">> \o e.senderEmail \o <<">\nTo: ">> \o e.to
  \o <<"\nDate: ">> \o e.receivedTime \o <<"\n\n">> \o e.body
  \o <<"\n--- END EMAIL ---">>

\* processWithAI: userContent
UserContent(prompt, e) == IF e.present THEN prompt \o EmailBlock(e) ELSE prompt


\* no function is under study
InitCallVars == input = Null /\ output = {}

\* ------------------------------------------------------------------------
\* Specification of the rate limiter alone
\* ------------------------------------------------------------------------
InitRate ==
  /\ InitLimiter
  /\ provider = "grok"
  /\ keyStore = [p \in Providers |-> NoKey]
  /\ inv = NoInvocation
  /\ InitPipelineVars
  /\ InitCallVars

RateCheck ==
  \E k \in RateKeys : Check(k) /\ UNCHANGED <<settingsVars, inv, pipelineVars, callVars>>
RateTick ==
  \E d \in {TickUnit, windowMs} :
    Tick(d) /\ UNCHANGED <<settingsVars, inv, pipelineVars, callVars>>

NextRate == RateCheck \/ RateTick

SpecRate == InitRate /\ [][NextRate]_vars

\* ------------------------------------------------------------------------
\* Specification of the rate-limited entry points
\* ------------------------------------------------------------------------
\* the registry after a burst of n accepted calls of every key at time 0
Burst(n) == [k \in RLKeys |-> [i \in 1..n |-> 0]]

\* the entry points are exercised in a window in which every key has
\* already accepted all but Headroom calls of its budget
InitIpc ==
  /\ now = 0
  /\ calls = Burst(maxCalls - Headroom)
  /\ hist = Burst(maxCalls - Headroom)
  /\ lastCheck = NoCheck
  /\ provider \in Providers
  /\ keyStore \in {[p \in Providers |-> NoKey], [p \in Providers |-> "k1"]}
  /\ inv = NoInvocation
  /\ InitPipelineVars
  /\ InitCallVars

IpcProcessWithAi ==
  \E v \in BOOLEAN, net \in NetOutcomes, kt \in BOOLEAN :
    ProcessWithAiHandler(v, net, kt) /\ UNCHANGED <<pipelineVars, callVars>>
IpcCreateReply ==
  \E v \in BOOLEAN, com \in ComOutcomes :
    CreateReplyHandler(v, com) /\ UNCHANGED <<pipelineVars, callVars>>
IpcAnalyzeFile ==
  \E kind \in ExtractKinds, net \in NetOutcomes, kt \in BOOLEAN :
    AnalyzeFileHandler(kind, net, kt) /\ UNCHANGED <<pipelineVars, callVars>>

NextIpc == IpcProcessWithAi \/ IpcCreateReply \/ IpcAnalyzeFile

SpecIpc == InitIpc /\ [][NextIpc]_vars

\* ------------------------------------------------------------------------
\* Specification of the credential lookup
\* ------------------------------------------------------------------------
InitCred ==
  /\ InitLimiter
  /\ provider \in Providers
  /\ keyStore \in [Providers -> ApiKeys \cup {NoKey}]
  /\ keyStore["ollama"] = NoKey
  /\ inv = NoInvocation
  /\ InitPipelineVars
  /\ InitCallVars

CredSave ==
  \E p \in Providers, k \in ApiKeys \cup {NoKey}, saved \in BOOLEAN :
    SaveAiSettings(p, k, saved)
CredTest ==
  \E net \in NetOutcomes, kt \in BOOLEAN : TestAiConnection(net, kt)

NextCred == CredSave \/ CredTest

SpecCred == InitCred /\ [][NextCred]_vars

\* ------------------------------------------------------------------------
\* Specification of the One Shot / Smart Shot runs
\* ------------------------------------------------------------------------
\* the application starts with an API key stored for every hosted provider
Init ==
  /\ InitLimiter
  /\ provider \in Providers
  /\ keyStore = [p \in Providers |-> IF p = "ollama" THEN NoKey ELSE "k1"]
  /\ inv = NoInvocation
  /\ InitPipelineVars
  /\ InitCallVars

Next ==
  \/ SelectPrompts
  \/ OneShotStart \/ OneShotFetched \/ OneShotProcessed \/ OneShotReplied
  \/ SmartShotStart \/ SmartShotFetched \/ SmartShotReturned
  \/ SmartShotReplied
  \/ SsExtract \/ SsAttachment \/ SsCompose \/ SsMainAI

Spec == Init /\ [][Next]_vars

\* every step of a started run is the return of a call the handler awaits:
\* getActiveEmail, process-with-multi-prompts, smart-shot and the steps of
\* its main-process handler, create-reply-in-outlook. Provided each call
\* returns or fails, the step that is enabled is taken.
SpecLive ==
  /\ Init
  /\ [][Next]_vars
  /\ WF_vars(OneShotFetched \/ OneShotProcessed \/ OneShotReplied
             \/ SmartShotFetched \/ SmartShotReturned \/ SmartShotReplied
             \/ SsExtract \/ SsAttachment \/ SsCompose \/ SsMainAI)

\* ------------------------------------------------------------------------
\* Specification of one AI invocation and the response it gets
\* ------------------------------------------------------------------------
\* everything but the settings and the call under study, at rest
InitRest ==
  /\ InitLimiter
  /\ inv = NoInvocation
  /\ InitPipelineVars

restVars == <<limiterVars, inv, pipelineVars>>

InitInvoke ==
  /\ InitRest
  /\ provider \in Providers
  /\ keyStore \in {[p \in Providers |-> NoKey],
                   [p \in Providers |-> IF p = "ollama" THEN NoKey ELSE "k1"]}
  /\ input \in
       [post : {"response", "timeout", "httpError"},
        body : {[data |-> FALSE, choices |-> "absent", message |-> FALSE,
                 content |-> "absent"]} \cup
               {[data |-> TRUE, choices |-> ch, message |-> FALSE,
                 content |-> "absent"] : ch \in {"absent", "empty", "one"}} \cup
               {[data |-> TRUE, choices |-> ch, message |-> TRUE, content |-> c] :
                  ch \in {"absent", "empty", "one"},
                  c \in {"absent", "null", "text"}}]
  /\ output = {}

\* the invoker is called and returns
InvokeAi ==
  /\ output = {}
  /\ output' = {processWithAIBody(input.post, input.body, TRUE)}
  /\ UNCHANGED <<input, settingsVars, restVars>>

SpecInvoke == InitInvoke /\ [][InvokeAi]_vars

\* ------------------------------------------------------------------------
\* Specification of the output sanitizer and of the reply hand-off
\* ------------------------------------------------------------------------
\* the pieces the texts under study are made of
RECURSIVE Texts(_)
Texts(n) ==
  IF n = 0 THEN {<<>>}
  ELSE LET shorter == Texts(n - 1)
           Fragments ==
             {<<"a">>, <<"*">>, <<"*", "*">>, <<"q">>, <<" ">>, <<"\n">>,
              <<"<", "h">>, <<">">>, <<"[", "a", "]">>, <<"(", "a", ")">>}
       IN shorter \cup {t \o f : t \in shorter, f \in Fragments}

InitClean ==
  /\ InitRest
  /\ provider = "grok"
  /\ keyStore = [p \in Providers |-> NoKey]
  /\ input \in Texts(MaxPieces)
  /\ output = {}

\* cleanAiOutput is applied to the text
Sanitize ==
  /\ output = {}
  /\ inv = NoInvocation
  /\ output' = {[by |-> "cleanAiOutput", body |-> cleanAiOutput(input)]}
  /\ UNCHANGED <<input, settingsVars, restVars>>

\* create-reply-in-outlook is invoked with the text as replyBody
ReplyWithBody ==
  /\ output = {}
  /\ inv = NoInvocation
  /\ \E com \in ComOutcomes :
       /\ CreateReplyHandler(TRUE, com)
       /\ output' = IF "com" \in inv'.did
                      THEN {[by |-> "createReply",
                             body |-> ReplyBodyPassed(input)]}
                      ELSE {}
  /\ UNCHANGED <<input, pipelineVars>>

SpecClean == InitClean /\ [][Sanitize \/ ReplyWithBody]_vars

\* ------------------------------------------------------------------------
\* Specification of the prompt composition
\* ------------------------------------------------------------------------
\* the emailData the handlers are given; NoEmail is a missing emailData
EmailWith(body, subject, senderName) ==
  [present |-> TRUE, body |-> body, subject |-> subject,
   senderName |-> senderName, senderEmail |-> <<"ann@example.com">>,
   to |-> <<"me@example.com">>, cc |-> <<>>, receivedTime |-> <<"Friday">>]

NoEmail ==
  [present |-> FALSE, body |-> <<>>, subject |-> <<>>, senderName |-> <<>>,
   senderEmail |-> <<>>, to |-> <<>>, cc |-> <<>>, receivedTime |-> <<>>]

Emails ==
  {EmailWith(b, su, n) :
     b \in {<<"Please review by Friday">>, <<"{subject}">>},
     su \in {<<"Q3 Budget">>, <<>>},
     n \in {<<"Ann">>, <<>>}}

\* the sequences of up to n ids the handler may be given: those of the
\* store and a stale one
RECURSIVE IdSeqs(_)
IdSeqs(n) ==
  IF n = 0 THEN {<<>>}
  ELSE LET shorter == IdSeqs(n - 1)
       IN shorter \cup {Append(q, p) : q \in shorter,
                                       p \in DOMAIN PromptStore \cup {"gone"}}

\* process-with-multi-prompts is about to run, or smart-shot has reached
\* step 3 with the summaries of its attachments; the input is the arguments
\* of the handler, atts being results.attachmentSummaries
InitCompose ==
  /\ InitLimiter
  /\ provider = "grok"
  /\ keyStore = [p \in Providers |-> IF p = "ollama" THEN NoKey ELSE "k1"]
  /\ inv = NoInvocation
  /\ usageCount = [p \in DOMAIN PromptStore |-> 0]
  /\ InitRenderer
  /\ input \in
       {[handler |-> h, promptIds |-> ids, email |-> e, quickNotes |-> q,
         atts |-> a] :
          h \in {"multi", "smart"}, ids \in IdSeqs(MaxSelected),
          e \in Emails \cup {NoEmail},
          q \in {<<>>, <<" ">>, <<" ", "Keep it short", "\n">>},
          a \in {<<>>, <<[file |-> 1, kind |-> "ok"]>>,
                 <<[file |-> 1, kind |-> "ok"], [file |-> 2, kind |-> "noText"]>>}}
  /\ input.handler = "multi" => input.atts = <<>>
  /\ output = {}
  /\ runEmail = IF input.email.present THEN "e1" ELSE ""
  /\ runPrompts = input.promptIds
  /\ runLog = {}
  /\ spc = IF input.handler = "smart" THEN "compose" ELSE "idle"
  /\ attachments = FileSeq(Len(input.atts))
  /\ idx = Len(input.atts) + 1
  /\ summaries = input.atts
  /\ failed = {input.atts[i].file : i \in {j \in DOMAIN input.atts :
                                             input.atts[j].kind # "ok"}}
  /\ disk = {input.atts[i].file : i \in DOMAIN input.atts}
  /\ cleaned = {}
  /\ ssResult = NoSsResult

\* what the handler composed: combinedPrompt, the user content processWithAI
\* builds from it, usedPromptNames, and whether processWithAI was reached
Composed(by, aiReached) ==
  LET combined == CombinedPrompt(input.promptIds, input.email,
                                 input.quickNotes, input.atts)
  IN [by |-> by, combined |-> combined,
      userContent |-> UserContent(combined, input.email),
      usedPrompts |-> UsedNamesFrom(input.promptIds, 1),
      aiReached |-> aiReached]

\* process-with-multi-prompts runs
ComposeMulti ==
  /\ input.handler = "multi"
  /\ output = {}
  /\ \E net \in NetOutcomes, kt \in BOOLEAN :
       MultiPromptsHandler(input.promptIds, net, kt)
  /\ output' = {Composed("process-with-multi-prompts", TRUE)}
  /\ UNCHANGED <<input, rendererVars, ssVars>>

\* smart-shot runs its steps 3 and 4
ComposeSmart ==
  /\ input.handler = "smart"
  /\ output = {}
  /\ SsComposeStep
  /\ output' = {Composed("smart-shot", FALSE)}
  /\ UNCHANGED input

\* smart-shot runs its step 5 on the prompt it composed
ComposeSmartAi ==
  /\ output # {}
  /\ SsMainAIStep
  /\ output' = {[o EXCEPT !.aiReached = TRUE] : o \in output}
  /\ UNCHANGED input

\* replacePlaceholders is applied to a template of the store
Substitute ==
  /\ output = {}
  /\ \E p \in DOMAIN PromptStore :
       output' = {[by |-> "replacePlaceholders",
                   template |-> PromptStore[p].template,
                   text |-> replacePlaceholders(PromptStore[p].template,
                                                input.email)]}
  /\ UNCHANGED <<input, settingsVars, limiterVars, inv, pipelineVars>>

SpecCompose ==
  InitCompose
  /\ [][ComposeMulti \/ ComposeSmart \/ ComposeSmartAi \/ Substitute]_vars

\* ------------------------------------------------------------------------
\* System prompt (main.js:357-418) and the messages of processWithAI
\* (main.js:455-471)
\* ------------------------------------------------------------------------
\* String.prototype.trim on the setting values of the model
TrimValue(v) == IF v = " " THEN "" ELSE v

\* a JavaScript string is truthy when it is not empty
Truthy(v) == v # ""

\* contextParts.join('\n\n')
RECURSIVE JoinParts(_)
JoinParts(parts) ==
  IF Len(parts) = 1 THEN Head(parts)
  ELSE Head(parts) \o <<"\n\n">> \o JoinParts(Tail(parts))

DefaultSystemPrompt == <<"You are a helpful email assistant.">>

\* buildSystemPrompt: it reads aiSettings.companyContext and
\* aiSettings.globalContext and nothing else
buildSystemPrompt(profile) ==
  LET company == profile.companyContext
      ctx == profile.globalContext
      \* if (company.enabled && company.content && company.content.trim())
      companyPart ==
        IF company.enabled /\ Truthy(company.content)
           /\ Truthy(TrimValue(company.content))
        THEN <<<<TrimValue(company.content)>>>> ELSE <<>>
      \* if (ctx.name || ctx.role || ctx.company) userInfo
      userInfo ==
        IF Truthy(ctx.name) \/ Truthy(ctx.role) \/ Truthy(ctx.company)
        THEN << <<"You are helping">>
                \o (IF Truthy(ctx.name) THEN <<" ", ctx.name>> ELSE <<>>)
                \o (IF Truthy(ctx.role) THEN <<", ", ctx.role>> ELSE <<>>)
                \o (IF Truthy(ctx.company) THEN <<" at ", ctx.company>>
                    ELSE <<>>)
                \o (IF Truthy(ctx.industry)
                      THEN <<" (", ctx.industry, " industry)">> ELSE <<>>)
                \o <<".">> >>
        ELSE <<>>
      hasStyle == Truthy(ctx.communicationStyle)
                  /\ Truthy(TrimValue(ctx.communicationStyle))
      hasDetail == Truthy(ctx.detailLevel) /\ Truthy(TrimValue(ctx.detailLevel))
      \* if (hasStyle || hasDetail) style
      style ==
        IF hasStyle \/ hasDetail
        THEN << <<"Communication preferences:">>
                \o (IF hasStyle THEN <<" ", ctx.communicationStyle, " tone">>
                    ELSE <<>>)
                \o (IF hasDetail
                      THEN <<IF hasStyle THEN "," ELSE "", " ",
                             ctx.detailLevel, " responses">>
                    ELSE <<>>)
                \o <<".">> >>
        ELSE <<>>
      \* if (ctx.customNotes && ctx.customNotes.trim())
      notes ==
        IF Truthy(ctx.customNotes) /\ Truthy(TrimValue(ctx.customNotes))
        THEN << <<"Additional notes:\n", ctx.customNotes>> >> ELSE <<>>
      contextParts ==
        companyPart
        \o (IF ctx.enabled # "false" THEN userInfo \o style \o notes
            ELSE <<>>)
  IN IF Len(contextParts) > 0
     THEN JoinParts(contextParts)
          \o (IF ~company.enabled \/ ~Truthy(company.content)
                THEN <<"\n\nHelp the user understand and respond to their emails efficiently.">>
              ELSE <<>>)
     ELSE DefaultSystemPrompt

MessagesConflated(systemPrompt, userContent) ==
  <<[role |-> "system", content |-> systemPrompt \o userContent],
    [role |-> "user", content |-> userContent]>>
\* const messages = [{role: 'system', ...}, {role: 'user', ...}]
Messages(systemPrompt, userContent) ==
  <<[role |-> "system", content |-> systemPrompt],
    [role |-> "user", content |-> userContent]>>

\* ------------------------------------------------------------------------
\* Specification of the system prompt
\* ------------------------------------------------------------------------
\* the invocations of processWithAI that are followed
MaxInvocations == 3

\* the profile is aiSettings.companyContext and aiSettings.globalContext;
\* enabled of the global context is "undefined" when the settings file
\* lacks it
InitPrompt ==
  /\ InitRest
  /\ provider = "grok"
  /\ keyStore = [p \in Providers |-> IF p = "ollama" THEN NoKey ELSE "k1"]
  /\ input \in
       [profile :
          [companyContext : [enabled : BOOLEAN, content : {"", " ", "Acme policy"}],
           globalContext : [enabled : {"true", "false", "undefined"},
                            name : {"", "Earl"}, role : {"", "CFO"},
                            company : {"", "Acme"}, industry : {"", "retail"},
                            communicationStyle : {"", "friendly"},
                            detailLevel : {"", "concise"},
                            customNotes : {"", " ", "No emojis"}]]]
  /\ output = {}

\* processWithAI(prompt, emailData) builds its messages; a run hands it the
\* prompt composed from the templates, quick notes and attachment
\* summaries, and the message
BuildMessages ==
  /\ Cardinality(output) < MaxInvocations
  /\ \E run \in
         {[promptIds |-> <<"p1">>,
           email |-> EmailWith(<<"Please review by Friday">>, <<"Q3 Budget">>,
                               <<"Ann">>),
           quickNotes |-> <<>>, atts |-> <<>>],
          [promptIds |-> <<>>,
           email |-> EmailWith(<<"{subject}">>, <<>>, <<>>),
           quickNotes |-> <<" ", "Keep it short", "\n">>,
           atts |-> <<[file |-> 1, kind |-> "ok"]>>],
          [promptIds |-> <<"p2">>, email |-> NoEmail, quickNotes |-> <<>>,
           atts |-> <<>>]} :
       LET prompt == CombinedPrompt(run.promptIds, run.email, run.quickNotes,
                                    run.atts)
       IN output' = output \cup
            {[profile |-> input.profile, run |-> run,
              messages |-> Messages(buildSystemPrompt(input.profile),
                                    UserContent(prompt, run.email))]}
  /\ UNCHANGED <<input, settingsVars, restVars>>

\* save-ai-settings stores the global context with its switch on or off
SaveContext ==
  /\ \E e \in {"true", "false"} :
       /\ e # input.profile.globalContext.enabled
       /\ input' = [input EXCEPT !.profile.globalContext.enabled = e]
  /\ UNCHANGED <<output, settingsVars, restVars>>

SpecPrompt == InitPrompt /\ [][BuildMessages \/ SaveContext]_vars

\* ------------------------------------------------------------------------
\* Truncation of extracted text (main.js:3882-3885, 4511-4552); a text is
\* modelled by its length
\* ------------------------------------------------------------------------
\* fileContent.length > 5000, substring(0, 5000)
SmartShotCeiling == 5000
\* the length of '\n... [truncated]'
SmartShotMarkerLen == 16
\* textToAnalyze.length > 50000, substring(0, 50000)
AnalyzeCeiling == 50000
\* the length of '\n\n[Document truncated due to length...]'
AnalyzeMarkerLen == 39
\* extracted.text.length > 20
OcrMinLen == 20

\* if (text.length > ceiling) text = text.substring(0, ceiling) + marker
Truncated(len, ceiling, markerLen) ==
  IF len > ceiling THEN ceiling + markerLen ELSE len

\* analyze-file: what extractTextFromFile found, from the type of the file
\* and the length of its text; an image has usable OCR text when
\* hasOcrText && text.length > 20
AnalyzeKind(fileType, len, extract) ==
  IF extract # "ok" THEN extract
  ELSE IF fileType = "image"
         THEN (IF len > OcrMinLen THEN "imageOcr" ELSE "imageVision")
         ELSE "text"

\* analyze-file: the length of the text given to analyzeFileWithAI; the
\* image branch returns at 4515 with extracted.text, before the cut at 4541
AnalyzeTextLen(kind, len) ==
  IF kind = "imageOcr" THEN len
  ELSE Truncated(len, AnalyzeCeiling, AnalyzeMarkerLen)

\* ------------------------------------------------------------------------
\* Specification of the truncation
\* ------------------------------------------------------------------------
\* analyze-file is about to run, or smart-shot is at the one attachment
\* the mail client saved; the input is the file given to the handler: its
\* type and the length of its text
InitTruncate ==
  /\ InitLimiter
  /\ provider = "grok"
  /\ keyStore = [p \in Providers |-> IF p = "ollama" THEN NoKey ELSE "k1"]
  /\ input \in
       [path : {"smart-shot", "analyze-file"}, fileType : {"image", "document"},
        len : {0, OcrMinLen, OcrMinLen + 1, SmartShotCeiling,
               SmartShotCeiling + 1, SmartShotCeiling + SmartShotMarkerLen,
               AnalyzeCeiling, AnalyzeCeiling + 1,
               AnalyzeCeiling + AnalyzeMarkerLen + 1}]
  /\ output = {}
  /\ inv = IF input.path = "smart-shot"
             THEN [NoInvocation EXCEPT !.channel = "smart-shot",
                                       !.did = {"attach"},
                                       !.result = "running"]
             ELSE NoInvocation
  /\ usageCount = [p \in PromptIds |-> 0]
  /\ InitRenderer
  /\ runEmail = IF input.path = "smart-shot" THEN "e1" ELSE Null
  /\ runPrompts = <<>>
  /\ runLog = {}
  /\ spc = IF input.path = "smart-shot" THEN "loop" ELSE "idle"
  /\ attachments = IF input.path = "smart-shot" THEN FileSeq(1) ELSE <<>>
  /\ idx = 1
  /\ summaries = <<>>
  /\ failed = {}
  /\ disk = IF input.path = "smart-shot" THEN {1} ELSE {}
  /\ cleaned = {}
  /\ ssResult = NoSsResult

\* smart-shot processes the attachment: every file type ends in the same
\* fileContent, cut at 3883; if (!fileContent.trim()) no AI call is made.
\* The output is the text handed to the AI: where, its length as extracted
\* and as handed
TruncateSmart ==
  /\ input.path = "smart-shot"
  /\ \E throws \in BOOLEAN, net \in NetOutcomes, kt \in BOOLEAN :
       LET x == IF throws THEN "throws"
                ELSE IF input.len = 0 THEN "empty" ELSE "text"
       IN /\ SsAttachmentWith(x, net, kt)
          /\ output' = IF x = "text"
                         THEN {[path |-> "smart-shot",
                                extracted |-> input.len,
                                handed |-> Truncated(input.len,
                                                     SmartShotCeiling,
                                                     SmartShotMarkerLen)]}
                       ELSE {}
  /\ UNCHANGED input

\* analyze-file runs on the file
TruncateAnalyze ==
  /\ input.path = "analyze-file"
  /\ inv = NoInvocation
  /\ \E extract \in {"ok", "fail", "scanned"}, net \in NetOutcomes,
        kt \in BOOLEAN :
       LET kind == AnalyzeKind(input.fileType, input.len, extract)
       IN /\ AnalyzeFileHandler(kind, net, kt)
          /\ output' = IF kind \in {"imageOcr", "text"}
                         THEN {[path |-> "analyze-file",
                                extracted |-> input.len,
                                handed |-> AnalyzeTextLen(kind, input.len)]}
                       ELSE {}
  /\ UNCHANGED <<input, pipelineVars>>

SpecTruncate == InitTruncate /\ [][TruncateSmart \/ TruncateAnalyze]_vars

\* ------------------------------------------------------------------------
\* extractTextFromFile (main.js:4073-4212); a text is modelled by its length
\* and by the length of its trimmed form
\* ------------------------------------------------------------------------
\* avgCharsPerPage < 100
ScannedAvgChars == 100
\* data.text.trim().length < 50
ScannedTextLen == 50
\* the length of '[Image file - OCR found no text, use vision API for analysis]'
NoOcrTextLen == 61

IsScannedPdfAnyText(len, trimmed, pages) ==
  len < ScannedAvgChars * (IF pages = 0 THEN 1 ELSE pages)
\* isLikelyScanned && data.text.trim().length < 50, with avgCharsPerPage =
\* data.text.length / (data.numpages || 1)
IsScannedPdf(len, trimmed, pages) ==
  /\ len < ScannedAvgChars * (IF pages = 0 THEN 1 ELSE pages)
  /\ trimmed < ScannedTextLen

\* extractTextFromFile(filePath) on the file f: its extension, whether the
\* library for the extension was loaded, what reading and parsing (or
\* recognising) it do, and the text in it. threw: the call threw; error:
\* "none" or the reason of the failure
extractTextFromFile(f) ==
  LET result(success, error, type, len, isScanned, hasOcrText) ==
        [threw |-> FALSE, success |-> success, error |-> error,
         type |-> type, len |-> len, isScanned |-> isScanned,
         warning |-> isScanned, hasOcrText |-> hasOcrText]
      \* the catch of the function: { success: false, error: error.message }
      caught(reason) == result(FALSE, reason, "none", 0, FALSE, FALSE)
      raw == f.trimmed + f.pad
  IN CASE f.ext = ".txt" ->
            IF f.read = "throws" THEN caught("readError")
            ELSE result(TRUE, "none", "text", raw, FALSE, FALSE)
       [] f.ext = ".pdf" ->
            IF ~f.lib THEN result(FALSE, "noPdfLibrary", "none", 0, FALSE, FALSE)
            ELSE IF f.read = "throws" THEN caught("readError")
            ELSE IF f.parse = "throws" THEN caught("parseError")
            ELSE result(TRUE, "none", "pdf", raw,
                        IsScannedPdf(raw, f.trimmed, f.pages), FALSE)
       [] f.ext = ".docx" /\ f.lib ->
            IF f.parse = "throws" THEN caught("parseError")
            ELSE result(TRUE, "none", "word", raw, FALSE, FALSE)
       [] f.ext = ".png" ->
            \* the inner try: a failed OCR leaves ocrText = ''
            LET ocrText == IF f.lib /\ f.parse = "ok" THEN f.trimmed ELSE 0
            IN IF f.read = "throws" THEN caught("readError")
               ELSE result(TRUE, "none", "image",
                           IF ocrText > 0 THEN ocrText ELSE NoOcrTextLen,
                           FALSE, ocrText > 0)
       [] OTHER -> result(FALSE, "unsupported", "none", 0, FALSE, FALSE)

\* ------------------------------------------------------------------------
\* Specification of the extraction
\* ------------------------------------------------------------------------
\* analyze-file is about to run on a file
InitExtract ==
  /\ InitRest
  /\ provider = "grok"
  /\ keyStore = [p \in Providers |-> IF p = "ollama" THEN NoKey ELSE "k1"]
  /\ input \in
       [ext : {".txt", ".pdf", ".docx", ".png", ".zip"}, lib : BOOLEAN,
        read : {"ok", "throws"}, parse : {"ok", "throws"},
        pages : {0, 1, 2}, trimmed : {0, 40, 49, 50, 150, 250},
        pad : {0, 60, 200}]
  /\ output = {}

\* analyze-file extracts the text of the file and goes on with what it got
ExtractAndAnalyze ==
  /\ output = {}
  /\ LET extracted == extractTextFromFile(input)
     IN /\ output' = {extracted}
        /\ \E net \in NetOutcomes, kt \in BOOLEAN :
             AnalyzeFileHandler(
               AnalyzeKind(IF extracted.type = "image" THEN "image"
                           ELSE "document",
                           IF extracted.hasOcrText THEN extracted.len ELSE 0,
                           IF ~extracted.success THEN "fail"
                           ELSE IF extracted.isScanned /\ extracted.warning
                             THEN "scanned" ELSE "ok"),
               net, kt)
  /\ UNCHANGED <<input, pipelineVars>>

SpecExtract == InitExtract /\ [][ExtractAndAnalyze]_vars

\* ------------------------------------------------------------------------
\* Specification of the attachment loop of smart-shot (main.js:3802-3930):
\* input is where the control of the handler is, output the operations of
\* the run that were started and have not returned
\* ------------------------------------------------------------------------
NotAwaited(work) == "head"
\* await: the handler stays in the operation it started until it returns
AwaitPosition(work) == work

\* smart-shot has the attachments the mail client saved and enters the loop
InitLoop ==
  /\ InitLimiter
  /\ provider = "grok"
  /\ keyStore = [p \in Providers |-> IF p = "ollama" THEN NoKey ELSE "k1"]
  /\ inv = [NoInvocation EXCEPT !.channel = "smart-shot", !.did = {"attach"},
                                !.result = "running"]
  /\ usageCount = [p \in PromptIds |-> 0]
  /\ InitRenderer
  /\ runEmail = "e1"
  /\ runPrompts = <<>>
  /\ runLog = {}
  /\ spc = "loop"
  /\ \E n \in 1..MaxAttachments : attachments = FileSeq(n) /\ disk = 1..n
  /\ idx = 1
  /\ summaries = <<>>
  /\ failed = {}
  /\ cleaned = {}
  /\ ssResult = NoSsResult
  /\ input = "head"
  /\ output = {}

\* the body of the loop starts on attachments[idx]: the parser or the OCR
\* of the file is called
SsBeginFile ==
  /\ spc = "loop"
  /\ input = "head"
  /\ idx + Cardinality(output) <= Len(attachments)
  /\ output' = output \cup {[file |-> attachments[idx + Cardinality(output)],
                             work |-> "extract"]}
  /\ input' = AwaitPosition("extract")
  /\ UNCHANGED <<settingsVars, restVars>>

\* the operation the handler waits for returns: after the extraction the
\* summary is pushed (no text, or an exception) or processWithAI is called
\* for the key points; after the AI call the summary is pushed
SsFileReturns ==
  /\ spc = "loop"
  /\ \E op \in output :
       \/ /\ op.work = "extract"
          /\ \/ /\ output' = (output \ {op}) \cup {[op EXCEPT !.work = "ai"]}
                /\ input' = AwaitPosition("ai")
                /\ UNCHANGED <<settingsVars, restVars>>
             \/ /\ \E x \in {"throws", "empty"} : SsAttachmentWith(x, "ok", TRUE)
                /\ output' = output \ {op}
                /\ input' = "head"
       \/ /\ op.work = "ai"
          /\ \E net \in NetOutcomes, kt \in BOOLEAN :
               SsAttachmentWith("text", net, kt)
          /\ output' = output \ {op}
          /\ input' = "head"

SpecLoop == InitLoop /\ [][SsBeginFile \/ SsFileReturns]_vars

\* ------------------------------------------------------------------------
\* Renderer: what the user does besides starting a run (part_002)
\* ------------------------------------------------------------------------
\* the state only the two run handlers write
runOnlyVars == <<rpc, oneShotStatus, smartShotStatus, runEmail, runPrompts,
                 runLog, runNotes, runKeep>>
mainVars == <<limiterVars, settingsVars, inv, storeVars, ssVars>>

\* the quick-note field and its "keep" checkbox (lines 343-344, 1918-1921)
EditQuickNotes ==
  /\ \E notes \in {"", "note"}, keep \in BOOLEAN :
       /\ <<notes, keep>> # <<quickNotes, keepQuickNotes>>
       /\ quickNotes' = notes
       /\ keepQuickNotes' = keep
  /\ UNCHANGED <<selectedPromptIds, runOnlyVars, loading, activeEmail,
                 aiResult, message, resultEmail, oneShotMode, smartShotMode,
                 selectedEmail, fpc, fEmail>>
  /\ UNCHANGED <<mainVars, callVars>>

OtherModeKept(on, other) == other
\* if (!oneShotMode) setSmartShotMode(false), and the same of the other mode
OtherModeAfterToggle(on, other) == IF ~on THEN FALSE ELSE other

\* lines 1400-1403: a click on the One Shot switch
ToggleOneShot ==
  /\ oneShotMode' = ~oneShotMode
  /\ smartShotMode' = OtherModeAfterToggle(oneShotMode, smartShotMode)
  /\ UNCHANGED <<selectedPromptIds, runOnlyVars, loading, activeEmail,
                 aiResult, message, resultEmail, quickNotes, keepQuickNotes,
                 selectedEmail, fpc, fEmail>>
  /\ UNCHANGED <<mainVars, callVars>>

\* lines 1445-1448: a click on the Smart Shot switch
ToggleSmartShot ==
  /\ smartShotMode' = ~smartShotMode
  /\ oneShotMode' = OtherModeAfterToggle(smartShotMode, oneShotMode)
  /\ UNCHANGED <<selectedPromptIds, runOnlyVars, loading, activeEmail,
                 aiResult, message, resultEmail, quickNotes, keepQuickNotes,
                 selectedEmail, fpc, fEmail>>
  /\ UNCHANGED <<mainVars, callVars>>

\* lines 1482-1540: the One Shot button is rendered when oneShotMode is on
\* and smartShotMode is off; a click on it calls handleOneShot
OneShotClick == oneShotMode /\ ~smartShotMode /\ OneShotStart

\* the calls of process-with-ai and of create-reply-in-outlook that are
\* followed
MaxManual == 1

\* lines 449-453: a hotkey calls fetchAndProcess(action), which sets
\* loading.active and calls getActiveEmail
FetchAndProcessStart ==
  /\ fpc = "idle"
  /\ \E action \in {"none", "summarize"} :
       /\ action = "none" \/ Len(calls["ai-process"]) < MaxManual
       /\ fpc' = IF action = "none" THEN "fetch" ELSE "fetchForAi"
  /\ loading' = [loading EXCEPT !.active = TRUE]
  /\ UNCHANGED <<selectedPromptIds, runOnlyVars, activeEmail, aiResult,
                 message, resultEmail, quickNotes, keepQuickNotes,
                 oneShotMode, smartShotMode, selectedEmail, fEmail>>
  /\ UNCHANGED <<mainVars, callVars>>

\* lines 455-462 and 492-494: getActiveEmail returned to fetchAndProcess
FetchAndProcessFetched ==
  /\ fpc \in {"fetch", "fetchForAi"}
  /\ \E ok \in BOOLEAN, id \in {"e1", "e2"} :
       IF ~ok
         THEN /\ loading' = [loading EXCEPT !.active = FALSE]
              /\ fpc' = "idle"
              /\ UNCHANGED <<activeEmail, fEmail>>
       ELSE IF fpc = "fetchForAi" /\ AiConfigured
         THEN /\ activeEmail' = id
              /\ fEmail' = id
              /\ loading' = [active |-> FALSE, ai |-> TRUE]
              /\ fpc' = "ai"
       ELSE /\ activeEmail' = id
            /\ loading' = [loading EXCEPT !.active = FALSE]
            /\ fpc' = "idle"
            /\ UNCHANGED fEmail
  /\ UNCHANGED <<selectedPromptIds, runOnlyVars, aiResult, message,
                 resultEmail, quickNotes, keepQuickNotes, oneShotMode,
                 smartShotMode, selectedEmail>>
  /\ UNCHANGED <<mainVars, callVars>>

\* lines 476-494: process-with-ai ran and returned to fetchAndProcess
FetchAndProcessProcessed ==
  /\ fpc = "ai"
  /\ \E net \in NetOutcomes, kt \in BOOLEAN :
       /\ ProcessWithAiHandler(TRUE, net, kt)
       /\ IF inv'.result = "ok"
            THEN aiResult' = "content" /\ resultEmail' = fEmail
            ELSE UNCHANGED <<aiResult, resultEmail>>
  /\ loading' = NotLoading
  /\ fpc' = "idle"
  /\ UNCHANGED <<selectedPromptIds, runOnlyVars, activeEmail, message,
                 quickNotes, keepQuickNotes, oneShotMode, smartShotMode,
                 selectedEmail, fEmail>>
  /\ UNCHANGED <<storeVars, ssVars, callVars>>

\* lines 847-859: a click on a message of the inbox or sent list
handleSelectEmail ==
  /\ \E id \in {"e1", "e2"} : selectedEmail' = id
  /\ UNCHANGED <<selectedPromptIds, runOnlyVars, loading, activeEmail,
                 aiResult, message, resultEmail, quickNotes, keepQuickNotes,
                 oneShotMode, smartShotMode, fpc, fEmail>>
  /\ UNCHANGED <<mainVars, callVars>>

\* lines 547-550
handleTabChange ==
  /\ selectedEmail' = Null
  /\ UNCHANGED <<selectedPromptIds, runOnlyVars, loading, activeEmail,
                 aiResult, message, resultEmail, quickNotes, keepQuickNotes,
                 oneShotMode, smartShotMode, fpc, fEmail>>
  /\ UNCHANGED <<mainVars, callVars>>

\* lines 1096-1122: the reply is created against activeEmail || selectedEmail
\* with the content of aiResult; output keeps the latest reply asked for, as
\* the message replied to and the message the text was generated from
sendDraftToOutlook ==
  /\ aiResult # Null
  /\ Len(calls["outlook-reply"]) < MaxManual
  /\ LET email == IF activeEmail # Null THEN activeEmail ELSE selectedEmail
     IN IF email \in {Null, ""}
          THEN /\ message' = "error"
               /\ UNCHANGED <<limiterVars, settingsVars, inv, output>>
          ELSE /\ \E com \in ComOutcomes : CreateReplyHandler(TRUE, com)
               /\ message' = IF inv'.result = "ok" THEN "success" ELSE "error"
               /\ output' = {[to |-> email, from |-> resultEmail]}
  /\ UNCHANGED <<selectedPromptIds, runOnlyVars, loading, activeEmail,
                 aiResult, resultEmail, quickNotes, keepQuickNotes,
                 oneShotMode, smartShotMode, selectedEmail, fpc, fEmail>>
  /\ UNCHANGED <<storeVars, ssVars, input>>

\* the One Shot panel: the switches, the quick note, the selection, the run
SpecUi ==
  /\ Init
  /\ [][\/ SelectPrompts \/ EditQuickNotes \/ ToggleOneShot \/ ToggleSmartShot
        \/ OneShotClick \/ OneShotFetched \/ OneShotProcessed
        \/ OneShotReplied]_vars

\* a One Shot run among the hotkeys, the message lists and the manual reply
SpecHotkey ==
  /\ Init
  /\ [][\/ SelectPrompts
        \/ OneShotStart \/ OneShotFetched \/ OneShotProcessed \/ OneShotReplied
        \/ FetchAndProcessStart \/ FetchAndProcessFetched
        \/ FetchAndProcessProcessed
        \/ handleSelectEmail \/ handleTabChange \/ sendDraftToOutlook]_vars

\* ------------------------------------------------------------------------
\* The prompt store (main.js:3153-3424, 4022-4058)
\* ------------------------------------------------------------------------
\* the ids of the built-in templates (isDefault: true): a core one and one
\* of the enhanced ones
DEFAULT_PROMPTS == {"core-summarize", "default-1"}

\* loadPrompts on the file PROMPTS_FILE, given as whether it exists and can
\* be parsed and the ids of the templates it holds: the file after the call,
\* which is also the list returned
loadPrompts(file) ==
  LET corePromptIds == {"core-summarize"}
  IN IF file.exists
       THEN [exists |-> TRUE, ids |-> file.ids \cup corePromptIds]
       ELSE [exists |-> TRUE, ids |-> DEFAULT_PROMPTS]

\* get-prompts
GetPrompts ==
  /\ input' = loadPrompts(input)
  /\ output' = {[op |-> "load", id |-> "none", success |-> TRUE]}
  /\ UNCHANGED <<settingsVars, restVars>>

\* add-prompt: the new template gets an id of its own
AddPrompt ==
  /\ \E valid \in BOOLEAN, id \in {"prompt-1", "prompt-2"} :
       /\ id \notin input.ids
       /\ IF ~valid
            THEN /\ output' = {[op |-> "invalid", id |-> id, success |-> FALSE]}
                 /\ UNCHANGED input
            ELSE /\ input' = [loadPrompts(input) EXCEPT !.ids = @ \cup {id}]
                 /\ output' = {[op |-> "add", id |-> id, success |-> TRUE]}
  /\ UNCHANGED <<settingsVars, restVars>>

\* update-prompt: the fields of the template change, never its id nor its
\* isDefault flag
UpdatePrompt ==
  /\ \E id \in DEFAULT_PROMPTS \cup {"prompt-1", "prompt-2", "imported-1"} :
       /\ input' = loadPrompts(input)
       /\ output' = {[op |-> "update", id |-> id, success |-> id \in input'.ids]}
  /\ UNCHANGED <<settingsVars, restVars>>

\* delete-prompt
DeletePrompt ==
  /\ \E id \in DEFAULT_PROMPTS \cup {"prompt-1", "prompt-2", "imported-1"} :
       LET prompts == loadPrompts(input)
       IN IF id \notin prompts.ids \/ id \in DEFAULT_PROMPTS
            THEN /\ input' = prompts
                 /\ output' = {[op |-> "delete", id |-> id, success |-> FALSE]}
            ELSE /\ input' = [prompts EXCEPT !.ids = @ \ {id}]
                 /\ output' = {[op |-> "delete", id |-> id, success |-> TRUE]}
  /\ UNCHANGED <<settingsVars, restVars>>

\* import-prompts: jsonData is no array, or an array with no or with one
\* template that has a name and a template text
ImportPrompts ==
  /\ \E jsonData \in {"invalid", "none", "one"} :
       /\ "imported-1" \notin input.ids
       /\ IF jsonData = "invalid"
            THEN /\ output' = {[op |-> "invalid", id |-> "none", success |-> FALSE]}
                 /\ UNCHANGED input
            ELSE /\ input' = [loadPrompts(input) EXCEPT
                                !.ids = @ \cup (IF jsonData = "one"
                                                  THEN {"imported-1"} ELSE {})]
                 /\ output' = {[op |-> "import", id |-> "imported-1",
                                success |-> TRUE]}
  /\ UNCHANGED <<settingsVars, restVars>>

\* the file is absent, or it is one an earlier session left: any of the
\* templates may be in it
InitStore ==
  /\ InitRest
  /\ provider = "grok"
  /\ keyStore = [p \in Providers |-> IF p = "ollama" THEN NoKey ELSE "k1"]
  /\ input \in [exists : BOOLEAN,
                ids : SUBSET (DEFAULT_PROMPTS \cup {"prompt-1", "imported-1"})]
  /\ output = {}

SpecStore ==
  InitStore /\ [][GetPrompts \/ AddPrompt \/ UpdatePrompt \/ DeletePrompt
                  \/ ImportPrompts]_vars

\* ------------------------------------------------------------------------
\* The usage counters under overlapping handlers (main.js:3427-3471,
\* 3943-3964)
\* ------------------------------------------------------------------------
\* input counts the uses of a template the handlers have made; output holds
\* the process-with-custom-prompt calls that await the AI
InitUsage ==
  /\ InitRest
  /\ provider = "grok"
  /\ keyStore = [p \in Providers |-> IF p = "ollama" THEN NoKey ELSE "k1"]
  /\ input = 0
  /\ output = {}

\* increment-prompt-usage: load, count, save, with no await in between
IncrementPromptUsage ==
  /\ \E id \in PromptIds \cup {"unknown"} :
       IF id \in DOMAIN usageCount
         THEN /\ usageCount[id] < MaxUsage
              /\ usageCount' = [usageCount EXCEPT ![id] = @ + 1]
              /\ input' = input + 1
         ELSE UNCHANGED <<usageCount, input>>
  /\ UNCHANGED <<limiterVars, settingsVars, inv, rendererVars, ssVars, output>>

\* process-with-custom-prompt up to its await (3446-3464): load, find the
\* template, count its use, save, call processWithAI
CustomPromptBegin ==
  /\ \E id \in PromptIds :
       /\ usageCount[id] < MaxUsage
       /\ usageCount' = [usageCount EXCEPT ![id] = @ + 1]
       /\ input' = input + 1
       /\ output' = output \cup {[promptId |-> id, use |-> input + 1]}
  /\ UNCHANGED <<limiterVars, settingsVars, inv, rendererVars, ssVars>>

\* process-with-custom-prompt after its await (3464-3466): processWithAI
\* returned and its result is returned
CustomPromptReturn ==
  /\ \E call \in output, net \in NetOutcomes, kt \in BOOLEAN :
       LET r == processWithAI(net, kt)
       IN /\ output' = output \ {call}
          /\ inv' = Invocation("process-with-custom-prompt", {}, FALSE,
                               {"fswrite"} \cup AiEffects(r), AiResult(r), r.key)
  /\ UNCHANGED <<limiterVars, settingsVars, pipelineVars, input>>

\* the compose step of smart-shot, its uses counted
SsComposeCounted ==
  /\ SsComposeStep
  /\ input' = input + Len(runPrompts)
  /\ UNCHANGED output

\* a Smart Shot run among calls of the two other handlers that count a use
SpecUsage ==
  InitUsage /\ [][\/ SelectPrompts
                  \/ SmartShotStart \/ SmartShotFetched \/ SmartShotReturned
                  \/ SmartShotReplied
                  \/ SsExtract \/ SsAttachment \/ SsComposeCounted \/ SsMainAI
                  \/ IncrementPromptUsage
                  \/ CustomPromptBegin \/ CustomPromptReturn]_vars

\* ------------------------------------------------------------------------
\* Claims
\* ------------------------------------------------------------------------
\* C6: a call of check(key) is accepted iff fewer than maxCalls calls of the
\* same key were accepted in the preceding window, so no window ever holds
\* more than maxCalls accepted calls of one key, whatever the other keys do.
C6_RateLimit ==
  /\ lastCheck.key # "none" =>
       (lastCheck.ok <=> lastCheck.recent < maxCalls)
  /\ \A k \in RLKeys : Len(hist[k]) <= maxCalls

\* the 21st call of a key inside the window was rejected while another key
\* had accepted calls of its own
C6_Witness ==
  /\ lastCheck.key # "none"
  /\ ~lastCheck.ok
  /\ lastCheck.recent = maxCalls
  /\ \E k \in RateKeys : k # lastCheck.key /\ Len(hist[k]) > 0

\* C7: each rate-limited entry point checks its own key, and a rejected call
\* returns the rate-limited failure having done no downstream work.
RateLimitedChannels ==
  {"process-with-ai", "create-reply-in-outlook", "analyze-file"}

KeyOfChannel(ch) ==
  CASE ch = "process-with-ai" -> "ai-process"
    [] ch = "create-reply-in-outlook" -> "outlook-reply"
    [] ch = "analyze-file" -> "file-analysis"

C7_RejectedDoesNothing ==
  inv.channel \in RateLimitedChannels =>
    /\ lastCheck.key = KeyOfChannel(inv.channel)
    /\ inv.limited = ~lastCheck.ok
    /\ inv.limited => inv.did = {} /\ inv.result = "rateLimited"

\* a call of analyze-file was rejected by the limiter
C7_Witness ==
  /\ inv.channel = "analyze-file"
  /\ inv.limited
  /\ lastCheck.recent = maxCalls

\* C10: a request of a non-local provider carries the key stored for the
\* configured provider at the time of the call, and no request goes out when
\* none is stored.
C10_FreshCredential ==
  [][ (inv' # inv /\ provider # "ollama") =>
        /\ ("ai" \in inv'.did) => /\ keyStore[provider] # NoKey
                                  /\ inv'.key = keyStore[provider]
        /\ keyStore[provider] = NoKey =>
             "ai" \notin inv'.did /\ inv'.result = "noKey" ]_vars

\* two successive requests carried different keys: the key was changed in
\* between and the later request used the new one
C10_Witness ==
  /\ "ai" \in inv.did
  /\ inv.key # NoKey
  /\ inv.prevKey # NoKey
  /\ inv.prevKey # inv.key
  /\ inv.prevBy = inv.by
  /\ inv.key = keyStore[provider]

\* the channels of the One Shot / Smart Shot orchestration
PipelineChannels == {"process-with-multi-prompts", "smart-shot"}

\* the handler of the run has returned to the renderer and the run is over
RunEnded == rpc = "idle" /\ loading = NotLoading /\ oneShotStatus = Null
            /\ smartShotStatus = Null

\* C1: in a One Shot or Smart Shot run whose AI invocation fails, the run
\* ends in failure (an error message, the controls released) and
\* createReplyInOutlook is never called.
C1_AiFailureEndsRun ==
  "aiFailed" \in runLog =>
    /\ RunEnded
    /\ message = "error"
    /\ "reply" \notin runLog
    /\ inv.channel \in PipelineChannels
    /\ "com" \notin inv.did

C1_Witness ==
  /\ "aiFailed" \in runLog
  /\ inv.channel = "smart-shot"
  /\ ssResult.success
  /\ runEmail = "e1"
  /\ Len(summaries) > 0

\* C2: in a One Shot or Smart Shot run whose fetch of the active email
\* fails, the run ends in failure and nothing else is called: no attachment
\* extraction, no AI invocation, no reply.
C2_FetchFailureEndsRun ==
  "fetchFailed" \in runLog =>
    /\ RunEnded
    /\ message = "warning"
    /\ runLog = {"fetch", "fetchFailed"}
    /\ spc = "idle"

C2_Witness ==
  /\ "fetchFailed" \in runLog
  /\ message = "warning"
  /\ runPrompts # <<>>
  /\ usageCount["p1"] > 0

\* C3: in a Smart Shot run no failure while extracting or analyzing the
\* attachments fails the run as a whole: when the handler is done it has
\* composed the prompt and invoked the AI, and it reports success.
C3_ExtractionNeverFailsRun ==
  spc = "done" => ssResult.success /\ ssResult.composed

\* C4: when the attachments are harvested as N files, the handler ends the
\* loop with exactly N summaries, in the order of the harvest; only the
\* files whose extraction or AI summary failed carry an error marker, and
\* the files after a failing one are still processed.
C4_OneSummaryPerFile ==
  /\ spc = "loop" => Len(summaries) = idx - 1 /\ idx <= Len(attachments)
  /\ spc \in {"compose", "mainAI", "done"} =>
       /\ Len(summaries) = Len(attachments)
       /\ \A i \in DOMAIN summaries :
            /\ summaries[i].file = attachments[i]
            /\ summaries[i].kind # "ok" <=> attachments[i] \in failed

C4_Witness ==
  /\ spc = "done"
  /\ ssResult.success
  /\ Len(attachments) = 3
  /\ failed = {2}
  /\ summaries[3].kind = "ok"

\* C5: every temporary file written for a Smart Shot run has been handed
\* to the clean-up by the time the handler is done, whether it succeeded
\* or failed.
C5_TempFilesCleaned ==
  spc = "done" => disk \subseteq cleaned

\* C8: every AI request made by process-with-multi-prompts or smart-shot
\* is preceded by a rate-limiter check of the invocation.
C8_PipelineRateChecked ==
  (inv.channel \in PipelineChannels /\ "ai" \in inv.did) => inv.checked # {}

\* C9: a pipeline invocation that ends rate-limited or without credential
\* has extracted no attachment, written no file and sent no AI request.
C9_ChecksBeforeWork ==
  (inv.channel \in PipelineChannels /\ inv.result \in {"rateLimited", "noKey"})
    => inv.did \cap {"attach", "extract", "fswrite", "ai"} = {}

\* the content field of the response, where the provider's shape puts it
ContentOf(body) ==
  IF ~body.data \/ ~body.message THEN "absent"
  ELSE IF provider # "ollama" /\ body.choices # "one" THEN "absent"
  ELSE body.content

\* C11: the AI invoker returns success only when the response holds a
\* non-null content field; every other response shape is a failure with
\* the invalid-response reason, and success never carries null content.
C11_ResponseValidated ==
  \A r \in output :
    /\ r.success => r.content = "text"
    /\ (/\ input.post = "response"
        /\ r.error # "noKey"
        /\ ContentOf(input.body) # "text") =>
         ~r.success /\ r.error = "invalid"

\* C12: when the reply-creation call of a One Shot or Smart Shot run fails,
\* the run ends in failure and the AI result obtained in the run is still
\* in the renderer state: the failure neither clears nor replaces it.
C12_ResultKeptOnDeliveryFailure ==
  "replyFailed" \in runLog =>
    /\ RunEnded
    /\ message = "error"
    /\ aiResult = "content"

C12_Witness ==
  /\ "replyFailed" \in runLog
  /\ inv.channel = "create-reply-in-outlook"
  /\ inv.result = "comError"
  /\ "com" \in inv.did
  /\ aiResult = "content"
  /\ summaries # <<>>

\* C13: every body text create-reply-in-outlook passes to the mail client
\* is the sanitizer's output for the submitted text.
C13_SanitizedBeforeDelivery ==
  \A o \in output :
    o.by = "createReply" => o.body = cleanAiOutput(input)

C13_Witness ==
  /\ "com" \in inv.did
  /\ \E o \in output : o.by = "createReply" /\ o.body # input
                       /\ o.body # <<>>

\* C14: the sanitizer is idempotent: sanitizing its own output changes
\* nothing.
C14_Idempotent ==
  \A o \in output :
    o.by = "cleanAiOutput" => cleanAiOutput(o.body) = o.body

\* the concatenation of the texts of a sequence of texts
RECURSIVE Flatten(_)
Flatten(texts) ==
  IF texts = <<>> THEN <<>> ELSE Head(texts) \o Flatten(Tail(texts))

\* the selected templates that exist, in the order of the selection
FoundIds(promptIds) == SelectSeq(promptIds, Found)

\* one block per selected template, in the order of the selection, with
\* the substituted template text as its body (raw = FALSE) or with the
\* template text as it is (raw = TRUE)
BlocksOfSelection(promptIds, e, raw) ==
  LET ids == FoundIds(promptIds)
      body(p) == IF raw THEN PromptStore[p].template
                 ELSE replacePlaceholders(PromptStore[p].template, e)
  IN Flatten([i \in 1..Len(ids) |->
                <<"### ", PromptStore[ids[i]].name, ":\n">> \o body(ids[i])
                \o <<"\n\n">>])

\* the quick-notes block and the attachment-summaries block of the run
SuffixBlocks == QuickNotesBlock(input.quickNotes) \o AttachmentContext(input.atts)

\* C15 as stated: with one or more selected templates the user content is
\* the blocks of the templates in the chosen order followed only by the
\* quick-notes block and the attachment-summaries block.
C15_UserContentIsBlocks ==
  \A o \in output :
    (o.by \in PipelineChannels /\ FoundIds(input.promptIds) # <<>>) =>
      o.userContent = BlocksOfSelection(input.promptIds, input.email, FALSE)
                      \o SuffixBlocks

\* C15 amended: with one or more selected templates found in the store,
\* the combined prompt handed to processWithAI is the blocks of the
\* templates in the chosen order followed only by the quick-notes block and
\* the attachment-summaries block; the user content sent to the provider is
\* that prompt followed by the EMAIL block when the handler has the message.
C15_CombinedPromptIsBlocks ==
  \A o \in output :
    (o.by \in PipelineChannels /\ FoundIds(input.promptIds) # <<>>) =>
      /\ o.combined = BlocksOfSelection(input.promptIds, input.email, FALSE)
                      \o SuffixBlocks
      /\ o.userContent = o.combined \o (IF input.email.present
                                          THEN EmailBlock(input.email)
                                          ELSE <<>>)

C15_Witness ==
  /\ input.promptIds = <<"p2", "p1">>
  /\ input.email.body = <<"Please review by Friday">>
  /\ input.quickNotes = <<>>
  /\ \E o \in output :
       /\ o.by = "process-with-multi-prompts"
       /\ o.combined = <<"### ", "Brief", ":\n", "Be brief.", "\n\n",
                         "### ", "Reply", ":\n", "Please review by Friday",
                         "\n\n">>

\* C16: placeholder substitution equals the simultaneous substitution of the
\* tokens of the original template: a token inside a message-derived value
\* is inserted literally and not substituted again.
C16_SimultaneousSubstitution ==
  LET \* every supported token of the template replaced at once by its value
      Simultaneous(template, e) ==
        Flatten([i \in DOMAIN template |->
                   IF \E k \in DOMAIN Placeholders :
                        template[i] = Placeholders[k]
                     THEN ValueOf(template[i], e)
                   ELSE <<template[i]>>])
  IN \A o \in output :
       (o.by = "replacePlaceholders" /\ input.email.present) =>
         o.text = Simultaneous(o.template, input.email)

C18_FallbackInstruction ==
  \A o \in output :
    (o.by \in PipelineChannels /\ input.promptIds = <<>>) =>
      /\ o.combined = Fallback \o SuffixBlocks
      /\ o.usedPrompts = <<>>
      /\ o.by = "process-with-multi-prompts" =>
           o.aiReached /\ inv.channel = o.by /\ inv.result # "none"
      /\ o.by = "smart-shot" => spc \in {"mainAI", "done"}

C18_Witness ==
  /\ input.promptIds = <<>>
  /\ input.quickNotes # <<>>
  /\ "ai" \in inv.did
  /\ usageCount = [p \in DOMAIN PromptStore |-> 0]
  /\ \E o \in output : o.by = "process-with-multi-prompts" /\ o.aiReached
                       /\ Head(o.combined) = Head(Fallback)

\* C19: the system prompt is a function of the context profile only: two
\* invocations with the same profile get the same system prompt whatever
\* their templates, quick notes, message and summaries; the per-run
\* instruction and data are the user message and no per-run value is in the
\* system message; with neither context block enabled and populated the
\* system prompt is the minimal default.
C19_SystemPromptFromProfileOnly ==
  LET tokens(t) == {t[i] : i \in DOMAIN t}
      \* the per-run values: the tokens of the message, of the templates
      \* of the run, of its quick notes and of its attachment summaries
      RunValues(run) ==
        LET ids == FoundIds(run.promptIds)
        IN tokens(run.email.body) \cup tokens(run.email.subject)
           \cup tokens(run.email.senderName)
           \cup tokens(run.email.senderEmail)
           \cup tokens(run.email.to) \cup tokens(run.email.receivedTime)
           \cup UNION {tokens(PromptStore[ids[i]].template) :
                         i \in DOMAIN ids}
           \cup {PromptStore[ids[i]].name : i \in DOMAIN ids}
           \cup (tokens(run.quickNotes) \ Whitespace)
           \cup tokens(SummaryEntries(run.atts))
      \* the context block is switched on and holds something
      CompanyPopulated(profile) ==
        profile.companyContext.enabled
        /\ TrimValue(profile.companyContext.content) # ""
      PersonalPopulated(profile) ==
        LET ctx == profile.globalContext
        IN /\ ctx.enabled # "false"
           /\ \E v \in {ctx.name, ctx.role, ctx.company, ctx.industry,
                         ctx.communicationStyle, ctx.detailLevel,
                         ctx.customNotes} : TrimValue(v) # ""
  IN
  /\ \A o1 \in output, o2 \in output :
       o1.profile = o2.profile =>
         o1.messages[1].content = o2.messages[1].content
  /\ \A o \in output :
       /\ Len(o.messages) = 2
       /\ o.messages[1].role = "system"
       /\ o.messages[2].role = "user"
       /\ o.messages[2].content =
            UserContent(CombinedPrompt(o.run.promptIds, o.run.email,
                                       o.run.quickNotes, o.run.atts),
                        o.run.email)
       /\ \A i \in DOMAIN o.messages[1].content :
            o.messages[1].content[i] \notin RunValues(o.run)
       /\ (~CompanyPopulated(o.profile) /\ ~PersonalPopulated(o.profile)) =>
            o.messages[1].content = DefaultSystemPrompt

C19_Witness ==
  /\ \E o1 \in output, o2 \in output :
       /\ o1.profile = o2.profile
       /\ o1.run # o2.run
       /\ o1.run.email # o2.run.email
       /\ o1.messages[1].content # DefaultSystemPrompt
       /\ o1.messages[2].content # o2.messages[2].content
  /\ \E o \in output :
       /\ o.profile.companyContext.enabled
       /\ o.profile.companyContext.content = " "
       /\ o.profile.globalContext.enabled = "false"
       /\ o.profile.globalContext.name # ""
       /\ o.messages[1].content = DefaultSystemPrompt

\* C20: on every path that hands extracted text to the AI, for every file
\* type, a text longer than the ceiling of the path is handed on with length
\* exactly ceiling + length(marker), and no text is handed on longer than
\* that.
C20_TruncationInvariant ==
  \A o \in output :
    LET ceiling == IF o.path = "smart-shot" THEN SmartShotCeiling
                   ELSE AnalyzeCeiling
        markerLen == IF o.path = "smart-shot" THEN SmartShotMarkerLen
                     ELSE AnalyzeMarkerLen
    IN /\ o.extracted > ceiling => o.handed = ceiling + markerLen
       /\ o.handed <= ceiling + markerLen

\* C21: extractTextFromFile never throws, and every failure (missing parser
\* library, unreadable file, parser or OCR exception, empty file) comes back
\* as a result with success = false and a reason.
C21_FailuresAreResults ==
  \A r \in output :
    /\ ~r.threw
    /\ (\/ ~input.lib /\ input.ext \in {".pdf", ".docx", ".png"}
        \/ input.read = "throws" /\ input.ext \in {".txt", ".pdf", ".png"}
        \/ input.parse = "throws" /\ input.ext \in {".pdf", ".docx", ".png"}
        \/ input.trimmed + input.pad = 0 /\ input.ext = ".txt"
        \/ input.ext = ".zip") =>
         ~r.success /\ r.error # "none"

\* C22: a PDF that was parsed is returned with success = true, and it is
\* marked isScanned with a warning exactly when its average of extracted
\* characters per page is below 100 and its extracted text is under 50
\* characters; analyze-file then returns the warning as a successful result.
C22_ScannedPdfWarns ==
  \A r \in output :
    (/\ input.ext = ".pdf" /\ input.lib
     /\ input.read = "ok" /\ input.parse = "ok") =>
      /\ r.success
      /\ r.isScanned <=>
           /\ input.trimmed + input.pad
                < 100 * (IF input.pages = 0 THEN 1 ELSE input.pages)
           /\ input.trimmed < 50
      /\ r.warning <=> r.isScanned
      /\ r.isScanned => inv.result = "ok" /\ "ai" \notin inv.did

C22_Witness ==
  /\ input.ext = ".pdf"
  /\ input.pages = 2
  /\ input.trimmed = 40
  /\ input.pad = 0
  /\ \E r \in output : r.success /\ r.isScanned /\ r.warning
  /\ inv.channel = "analyze-file"
  /\ inv.result = "ok"

\* C23: within one Smart Shot run the attachments are processed one at a
\* time: at most one extraction, OCR or per-attachment AI call is in flight,
\* and it is the one of the attachment that follows the summaries (or error
\* markers) recorded so far.
C23_OneAttachmentAtATime ==
  /\ Cardinality(output) <= 1
  /\ \A op \in output : op.file = attachments[Len(summaries) + 1]

C23_Witness ==
  /\ Len(attachments) = 3
  /\ Len(summaries) = 1
  /\ output = {[file |-> 2, work |-> "ai"]}

\* ------------------------------------------------------------------------
\* C24: every started One Shot or Smart Shot run comes to an end, and at its
\* end the renderer is idle again: the status of the run is null and the
\* loading flags are cleared, whichever exit path the run took
\* ------------------------------------------------------------------------
C24_RunReturnsToIdle ==
  (rpc # "idle") ~> (/\ rpc = "idle"
                     /\ oneShotStatus = Null
                     /\ smartShotStatus = Null
                     /\ loading = NotLoading)

\* a Smart Shot run has ended on the failure of the main AI call
C24_Witness ==
  /\ rpc = "idle"
  /\ runLog = {"fetch", "smartShot", "aiFailed"}
  /\ smartShotStatus = Null
  /\ loading = NotLoading

\* ------------------------------------------------------------------------
\* C27: One Shot mode and Smart Shot mode are never both on, whatever the
\* clicks on the two switches
\* ------------------------------------------------------------------------
C27_ModesExclusive == ~(oneShotMode /\ smartShotMode)

\* Smart Shot mode was switched on while One Shot mode was on: the result
\* of a One Shot run, which needed One Shot mode, is shown
C27_Witness ==
  /\ smartShotMode
  /\ ~oneShotMode
  /\ aiResult = "content"
  /\ "multi" \in runLog

\* ------------------------------------------------------------------------
\* C25: when a run that was given a quick note ends, succeeded or failed,
\* the quick note is empty unless the user opted to keep it
\* ------------------------------------------------------------------------
C25_QuickNoteEndsWithRun ==
  [][(/\ rpc # "idle"
      /\ rpc' = "idle"
      /\ "multi" \in runLog
      /\ runNotes # ""
      /\ ~runKeep
      /\ ~keepQuickNotes) => quickNotes' = ""]_vars

\* ------------------------------------------------------------------------
\* C28: while a run is between its start and its return to idle, the run
\* button stays disabled, whatever the hotkeys and the other actions of the
\* user do meanwhile
\* ------------------------------------------------------------------------
C28_ButtonDisabledDuringRun == rpc # "idle" => ~ButtonEnabled

\* ------------------------------------------------------------------------
\* C29: a reply asked for with sendDraftToOutlook is created against the
\* message the displayed AI text was generated from
\* ------------------------------------------------------------------------
C29_ReplyToSourceMessage == \A reply \in output : reply.to = reply.from

\* ------------------------------------------------------------------------
\* C26: after any add, update, delete, import or load, every built-in
\* template is in the store: no delete of a built-in succeeds, and a
\* built-in that was missing from the file has been seeded again by the load
\* the operation made
\* ------------------------------------------------------------------------
C26_BuiltInsKeptAndReseeded ==
  \A r \in output :
    /\ (r.op = "delete" /\ r.id \in DEFAULT_PROMPTS) => ~r.success
    /\ r.op # "invalid" => DEFAULT_PROMPTS \subseteq input.ids

\* ------------------------------------------------------------------------
\* C30: the persisted usage counter of a template has grown by one for every
\* use the handlers made of it, whatever the order in which the steps of a
\* run and the other handlers that count uses take place
\* ------------------------------------------------------------------------
C30_EveryUseCounted == \A p \in PromptIds : usageCount[p] = input

\* smart-shot has counted its use and awaits the main AI call while a
\* process-with-custom-prompt call, which counted one too, awaits its own
C30_Witness ==
  /\ spc = "mainAI"
  /\ output # {}
  /\ input = 2
  /\ usageCount["p1"] = 2

====
